---- MODULE Spec2Model ----
(***************************************************************************)
(* Content-generation pipeline of Amarktai Marketing:                      *)
(*   - the multi-provider media router (agents/media_agent_v2.py)          *)
(*   - the nightly workflow orchestrator (workflows/nightly_workflow_v2.py)*)
(* Money is counted in units of 1/100000 dollar, so that every declared    *)
(* cost of the registry (0.03 per image, 0.00005 per character, ...) is an *)
(* integer.                                                                *)
(***************************************************************************)
EXTENDS Integers, Sequences, FiniteSets, TLC

VARIABLES
    environ,        \* the process environment read by os.getenv
    media_agent,    \* the MediaAgentV2 instance in use
    last_call,      \* the call made on media_agent whose result the caller holds
    pc,             \* the graph node the run is in ("idle": no run)
    channels,       \* the graph's state channels (ContentWorkflowState)
    state,          \* the state dict the running node works on
    frame,          \* the running node's local variables
    result,         \* what run() returned
    executed,       \* history: the nodes that have returned, in order
    work,           \* history: the per-platform work done, in order, and how it ended
    faults,         \* history: the number of exceptions raised so far
    poll,           \* the polling loop of an asynchronous generation job
    scored,         \* the call made on the scoring or the variant engine, with its results
    runs,           \* the media stages of the runs that share one workflow instance
    task            \* the nightly task's pass over one user

media_vars == <<environ, media_agent, last_call>>
run_vars == <<pc, channels, state, frame, result, executed, work, faults>>
vars == <<environ, media_agent, last_call, pc, channels, state, frame, result, executed,
          work, faults, poll, scored, runs, task, task>>

------------------------------------------------------------------------------
(* Bounds of the model *)

\* largest number of entries of a caller-supplied credential map
MaxUserKeys == 2

\* longest voiceover text, in characters
MaxTextLen == 2

\* longest target platform list of a run
MaxPlatforms == 2

\* largest number of exceptions raised during one run
MaxFaults == 1

------------------------------------------------------------------------------
(* Python values *)

None == "None"

\* Python truthiness of an Optional[str]
Truthy(s) == s # None /\ s # ""

Min(a, b) == IF a <= b THEN a ELSE b

Range(s) == {s[i] : i \in 1..Len(s)}

\* Python dicts: {} , d[k] = v, d.get(k, default)
EmptyDict == <<>>
Put(d, k, v) == [x \in (DOMAIN d) \cup {k} |-> IF x = k THEN v ELSE d[x]]
Get(d, k, default) == IF k \in DOMAIN d THEN d[k] ELSE default

RECURSIVE SeqMap(_, _)
\* [Op(x) for x in s]
SeqMap(Op(_), s) == IF s = <<>> THEN <<>> ELSE <<Op(Head(s))>> \o SeqMap(Op, Tail(s))

\* no polling loop is running; no scoring call has been made
NoPoll == [provider |-> None, attempt |-> 0, last |-> None, outcome |-> None]
NoScore == [op |-> None]

\* no run is in its media stage
NoRuns == <<>>

\* the nightly task is not running
NoTask == [at |-> None]

------------------------------------------------------------------------------
(* Provider registry: MediaAgentV2.__init__ *)

FREE == "free"
CHEAP == "cheap"
PREMIUM == "premium"

MediaTypes == {"image", "video", "audio"}

\* self.providers, in dict insertion order; cost is cost_per_image
ImageProviders == <<
    [name |-> "huggingface", key_name |-> "HUGGINGFACE_TOKEN",   priority |-> FREE,    cost |-> 0],
    [name |-> "leonardo",    key_name |-> "LEONARDO_API_KEY",    priority |-> PREMIUM, cost |-> 3000],
    [name |-> "openai",      key_name |-> "OPENAI_API_KEY",      priority |-> PREMIUM, cost |-> 4000],
    [name |-> "replicate",   key_name |-> "REPLICATE_API_TOKEN", priority |-> CHEAP,   cost |-> 1000],
    [name |-> "fal",         key_name |-> "FAL_AI_KEY",          priority |-> CHEAP,   cost |-> 2000],
    [name |-> "siliconflow", key_name |-> "SILICONFLOW_API_KEY", priority |-> FREE,    cost |-> 0] >>

\* self.video_providers; cost is cost_per_video
VideoProviders == <<
    [name |-> "runway",          key_name |-> "RUNWAY_API_KEY",      priority |-> PREMIUM, cost |-> 20000],
    [name |-> "heygen",          key_name |-> "HEYGEN_API_KEY",      priority |-> PREMIUM, cost |-> 30000],
    [name |-> "replicate_video", key_name |-> "REPLICATE_API_TOKEN", priority |-> CHEAP,   cost |-> 5000] >>

\* self.audio_providers; cost is cost_per_char
AudioProviders == <<
    [name |-> "elevenlabs", key_name |-> "ELEVENLABS_API_KEY", priority |-> PREMIUM, cost |-> 10],
    [name |-> "coqui",      key_name |-> "COQUI_API_KEY",      priority |-> FREE,    cost |-> 0],
    [name |-> "playht",     key_name |-> "PLAYHT_API_KEY",     priority |-> CHEAP,   cost |-> 5] >>

Registry(media_type) ==
    CASE media_type = "image" -> ImageProviders
      [] media_type = "video" -> VideoProviders
      [] media_type = "audio" -> AudioProviders
      [] OTHER -> <<>>

KeyNames ==
    {c.key_name : c \in Range(ImageProviders) \cup Range(VideoProviders) \cup Range(AudioProviders)}

\* a faulty variant of getenv: a variable that is not set reads as a demo key
DemoKey(key_name) ==
    IF key_name \in DOMAIN environ /\ environ[key_name] # "" THEN environ[key_name] ELSE "demo"

\* os.getenv(key_name)
getenv(key_name) == IF key_name \in DOMAIN environ THEN environ[key_name] ELSE None

\* MediaAgentV2._get_key, with self.user_api_keys passed explicitly
_get_key(user_api_keys, key_name) ==
    IF key_name \in DOMAIN user_api_keys /\ Truthy(user_api_keys[key_name])
    THEN user_api_keys[key_name]
    ELSE getenv(key_name)

\* the "key" entry each provider configuration gets in __init__
WithKeys(configs, user_api_keys) ==
    [i \in 1..Len(configs) |->
        [name     |-> configs[i].name,
         key      |-> _get_key(user_api_keys, configs[i].key_name),
         priority |-> configs[i].priority,
         cost     |-> configs[i].cost]]

\* MediaAgentV2(user_api_keys, user_plan)
MediaAgentV2(user_api_keys, user_plan) ==
    [user_api_keys   |-> user_api_keys,
     user_plan       |-> user_plan,
     providers       |-> WithKeys(ImageProviders, user_api_keys),
     video_providers |-> WithKeys(VideoProviders, user_api_keys),
     audio_providers |-> WithKeys(AudioProviders, user_api_keys)]

\* the provider table _get_available_providers picks for a media type
ProvidersOf(agent, media_type) ==
    CASE media_type = "image" -> agent.providers
      [] media_type = "video" -> agent.video_providers
      [] media_type = "audio" -> agent.audio_providers
      [] OTHER -> <<>>

Config(agent, media_type, name) ==
    CHOOSE c \in Range(ProvidersOf(agent, media_type)) : c.name = name

\* priority_order.get(priority, 3)
priority_order(priority) ==
    CASE priority = FREE -> 0
      [] priority = CHEAP -> 1
      [] priority = PREMIUM -> 2
      [] OTHER -> 3

\* list.sort(key=...) over keys 0..3: Python's sort is stable, so the result is
\* the elements of key 0 in their original order, then those of key 1, ...
StableSortByPriority(configs) ==
    SelectSeq(configs, LAMBDA c : priority_order(c.priority) = 0) \o
    SelectSeq(configs, LAMBDA c : priority_order(c.priority) = 1) \o
    SelectSeq(configs, LAMBDA c : priority_order(c.priority) = 2) \o
    SelectSeq(configs, LAMBDA c : priority_order(c.priority) = 3)

\* a faulty variant of _get_available_providers: the list is returned unsorted
UnsortedAvailableProviders(agent, media_type, priority) ==
    LET NameOf(c) == c.name
    IN SeqMap(NameOf,
              SelectSeq(ProvidersOf(agent, media_type),
                        LAMBDA c : Truthy(c.key) /\ (priority = None \/ c.priority = priority)))

\* MediaAgentV2._get_available_providers
_get_available_providers(agent, media_type, priority) ==
    LET NameOf(c) == c.name
        avail == SelectSeq(ProvidersOf(agent, media_type),
                           LAMBDA c : Truthy(c.key) /\ (priority = None \/ c.priority = priority))
    IN SeqMap(NameOf, StableSortByPriority(avail))

------------------------------------------------------------------------------
(* Media assets and the provider-specific generation calls *)

\* MediaAsset(type, url, status, provider, cost); id and metadata carry no logic
MediaAsset(type, url, status, provider, cost) ==
    [type |-> type, url |-> url, status |-> status, provider |-> provider, cost |-> cost]

NoAsset == MediaAsset(None, None, None, None, 0)

\* the three ways a provider-specific call ends
Returned(asset) == [kind |-> "asset", asset |-> asset]
ReturnedNone == [kind |-> "none", asset |-> NoAsset]
Raised == [kind |-> "raise", asset |-> NoAsset]

\* what the remote service does when called: answer well, or fail (non-success
\* status, malformed payload, timeout, exhausted polling)
Responses == {"ok", "exc"}

ProviderNames(media_type) == {c.name : c \in Range(Registry(media_type))}

\* the image providers whose asset is built with the literal cost=0.0
LiteralZeroCost == {"huggingface", "siliconflow"}

\* _generate_huggingface_image .. _generate_siliconflow_image: all six return None
\* without a key, build a completed asset on a good answer and raise otherwise
_generate_image_provider(agent, name, resp) ==
    LET cfg == Config(agent, "image", name)
    IN IF ~Truthy(cfg.key) THEN ReturnedNone
       ELSE IF resp[name] = "ok"
            THEN Returned(MediaAsset("image", "generated_url", "completed", name,
                                     IF name \in LiteralZeroCost THEN 0 ELSE cfg.cost))
            ELSE Raised

\* _generate_runway_video
_generate_runway_video(agent, resp) ==
    LET cfg == Config(agent, "video", "runway")
    IN IF ~Truthy(cfg.key) THEN ReturnedNone
       ELSE IF resp["runway"] = "ok"
            THEN Returned(MediaAsset("video", "generated_url", "completed", "runway", cfg.cost))
            ELSE Raised

\* self._generate_heygen_video and self._generate_replicate_video are not defined
\* by the class: the attribute lookup raises AttributeError inside the try block
UndefinedMethod == Raised

\* _generate_elevenlabs_audio: cost = len(text) * cost_per_char
_generate_elevenlabs_audio(agent, text_len, resp) ==
    LET cfg == Config(agent, "audio", "elevenlabs")
    IN IF ~Truthy(cfg.key) THEN ReturnedNone
       ELSE IF resp["elevenlabs"] = "ok"
            THEN Returned(MediaAsset("audio", "generated_url", "completed", "elevenlabs",
                                     text_len * cfg.cost))
            ELSE Raised

\* _generate_coqui_audio and _generate_playht_audio: stubs that return None
_generate_stub_audio(agent, name) == ReturnedNone

\* the if/elif dispatch inside the three provider loops; "skip" is the final
\* else: continue
CallProvider(agent, media_type, name, text_len, resp) ==
    CASE media_type = "image" /\ name \in ProviderNames("image") ->
            _generate_image_provider(agent, name, resp)
      [] media_type = "video" /\ name = "runway" -> _generate_runway_video(agent, resp)
      [] media_type = "video" /\ name \in {"heygen", "replicate_video"} -> UndefinedMethod
      [] media_type = "audio" /\ name = "elevenlabs" ->
            _generate_elevenlabs_audio(agent, text_len, resp)
      [] media_type = "audio" /\ name \in {"coqui", "playht"} -> _generate_stub_audio(agent, name)
      [] OTHER -> [kind |-> "skip", asset |-> NoAsset]

\* a faulty variant of PlaceholderAsset: the exhausted request is reported failed
UnfinishedAsset(media_type) == MediaAsset(media_type, None, "failed", "unknown", 0)

\* the asset returned when there is no candidate or every candidate failed:
\* provider="placeholder" with a stock URL for images and videos,
\* provider="none" with url=None for audio
PlaceholderAsset(media_type) ==
    CASE media_type = "image" ->
            MediaAsset("image", "placeholder_image_url", "completed", "placeholder", 0)
      [] media_type = "video" ->
            MediaAsset("video", "placeholder_video_url", "completed", "placeholder", 0)
      [] media_type = "audio" -> MediaAsset("audio", None, "completed", "none", 0)

\* the result of one generate_* call: the asset (or the exception that left the
\* call), with the candidate list and the providers invoked, in order
GenResult(raised, asset, providers, invoked) ==
    [raised |-> raised, asset |-> asset, providers |-> providers, invoked |-> invoked]

RECURSIVE AbortOnFailure(_, _, _, _, _, _, _)
\* a faulty variant of TryProviders: a candidate's failure ends the request with
\* the placeholder instead of moving on to the next candidate
AbortOnFailure(agent, media_type, providers, rest, text_len, resp, invoked) ==
    IF rest = <<>>
    THEN GenResult(FALSE, PlaceholderAsset(media_type), providers, invoked)
    ELSE LET name == Head(rest)
             r == CallProvider(agent, media_type, name, text_len, resp)
         IN CASE r.kind = "skip" ->
                    AbortOnFailure(agent, media_type, providers, Tail(rest), text_len, resp,
                                   invoked)
              [] r.kind = "asset" ->
                    GenResult(FALSE, r.asset, providers, Append(invoked, name))
              [] OTHER ->
                    GenResult(FALSE, PlaceholderAsset(media_type), providers,
                              Append(invoked, name))

RECURSIVE RaiseOnFailure(_, _, _, _, _, _, _)
\* a faulty variant of TryProviders: a candidate's exception leaves the
\* generate call instead of being caught in its loop
RaiseOnFailure(agent, media_type, providers, rest, text_len, resp, invoked) ==
    IF rest = <<>>
    THEN GenResult(FALSE, PlaceholderAsset(media_type), providers, invoked)
    ELSE LET name == Head(rest)
             r == CallProvider(agent, media_type, name, text_len, resp)
         IN CASE r.kind = "skip" ->
                    RaiseOnFailure(agent, media_type, providers, Tail(rest), text_len, resp,
                                   invoked)
              [] r.kind = "asset" ->
                    GenResult(FALSE, r.asset, providers, Append(invoked, name))
              [] r.kind = "raise" ->
                    GenResult(TRUE, NoAsset, providers, Append(invoked, name))
              [] OTHER ->
                    RaiseOnFailure(agent, media_type, providers, Tail(rest), text_len, resp,
                                   Append(invoked, name))

RECURSIVE TryProviders(_, _, _, _, _, _, _)
\* "for provider_name in providers: try: ... if result: return result
\*  except Exception: continue", followed by the all-failed placeholder
TryProviders(agent, media_type, providers, rest, text_len, resp, invoked) ==
    IF rest = <<>>
    THEN GenResult(FALSE, PlaceholderAsset(media_type), providers, invoked)
    ELSE LET name == Head(rest)
             r == CallProvider(agent, media_type, name, text_len, resp)
         IN CASE r.kind = "skip" ->
                    TryProviders(agent, media_type, providers, Tail(rest), text_len, resp, invoked)
              [] r.kind = "asset" ->
                    GenResult(FALSE, r.asset, providers, Append(invoked, name))
              [] OTHER ->
                    TryProviders(agent, media_type, providers, Tail(rest), text_len, resp,
                                 Append(invoked, name))

\* the provider loop of the three generate_* methods, from the candidate list on
RunCandidates(agent, media_type, providers, text_len, resp) ==
    IF providers = <<>>
    THEN GenResult(FALSE, PlaceholderAsset(media_type), providers, <<>>)
    ELSE TryProviders(agent, media_type, providers, providers, text_len, resp, <<>>)

\* the priority generate_image asks the registry for
ImagePriority(agent, prefer_free) ==
    IF prefer_free /\ agent.user_plan = "free" THEN FREE ELSE None

\* MediaAgentV2.generate_image(prompt, platform), prefer_free at its default
generate_image(agent, resp) ==
    RunCandidates(agent, "image",
                  _get_available_providers(agent, "image", ImagePriority(agent, TRUE)),
                  0, resp)

\* MediaAgentV2.generate_video(prompt)
generate_video(agent, resp) ==
    RunCandidates(agent, "video", _get_available_providers(agent, "video", None), 0, resp)

\* MediaAgentV2.generate_voiceover(text)
generate_voiceover(agent, text_len, resp) ==
    RunCandidates(agent, "audio", _get_available_providers(agent, "audio", None),
                  text_len, resp)

------------------------------------------------------------------------------
(* Inputs: plans, caller-supplied credential maps, process environments *)

PlanTypes == {"free", "pro"}

\* caller-supplied credential maps: at most MaxUserKeys entries, each a key
\* ("uk") or an empty string
UserKeyMaps ==
    UNION {[D -> {"uk", ""}] : D \in {S \in SUBSET KeyNames : Cardinality(S) <= MaxUserKeys}}

\* process environments: every variable set but empty (the defaults of
\* core/config.py exported as they are), keys for the free providers only,
\* a key for every provider
FreeKeyNames == {"HUGGINGFACE_TOKEN", "SILICONFLOW_API_KEY", "COQUI_API_KEY"}

BlankEnvironment == [k \in KeyNames |-> ""]
FreeKeyEnvironment == [k \in FreeKeyNames |-> "ek"]
FullEnvironment == [k \in KeyNames |-> "ek"]

Environments == { BlankEnvironment, FreeKeyEnvironment, FullEnvironment }

------------------------------------------------------------------------------
(* Content packages: CreativeAgent.generate_content_package *)

\* Texts are sequences of tokens; a token stands for a run of characters.
\* platforms that get a video script, and platforms that get image prompts
VideoPlatforms == {"youtube_shorts", "tiktok", "instagram_reels", "facebook_reels"}
ImagePlatforms == {"instagram", "facebook", "twitter", "linkedin"}

\* the platforms of the model: one with a video script, one with image
\* prompts, one with a caption only
PlatformPool == {"tiktok", "instagram", "youtube"}

\* CreativeAgent._generate_cta_variations: eight variations, "primary" recommended
CtaVariations ==
    << <<"cta_primary">>, <<"cta_secondary">>, <<"cta_urgency">>, <<"cta_social_proof">>,
       <<"cta_curiosity">>, <<"cta_direct">>, <<"cta_benefit">>, <<"cta_question">> >>

\* CreativeAgent.generate_content_package(research_data, webapp_data, platform);
\* text_len is the length of the voiceover text the script's scenes add up to
generate_content_package(research_data, platform, text_len) ==
    LET keys == {"caption", "cta"}
                \cup (IF platform \in VideoPlatforms THEN {"video_script"} ELSE {})
                \cup (IF platform \in ImagePlatforms THEN {"image_prompts"} ELSE {})
        Value(k) ==
            CASE k = "caption" -> [text |-> <<"caption_hook", "caption_body">>]
              [] k = "cta" -> [variations |-> CtaVariations, recommended |-> CtaVariations[1]]
              [] k = "video_script" -> [hook |-> <<"script_hook">>, text_len |-> text_len]
              [] k = "image_prompts" -> [primary |-> <<"image_prompt">>]
    IN [platform |-> platform,
        content_angle |-> IF research_data.content_angles = <<>>
                          THEN <<"default_angle">>
                          ELSE Head(research_data.content_angles),
        content |-> [k \in keys |-> Value(k)]]

\* package.get("content", {}) of a package or of the {} a failed platform leaves
ContentOf(package) == Get(package, "content", EmptyDict)

------------------------------------------------------------------------------
(* MediaAgentV2.generate_content_media and estimate_cost *)

\* the asset generate_content_media stores when a gathered task raised
FailedAsset(asset_type) == MediaAsset(asset_type, None, "failed", "unknown", 0)

\* min(providers, key=cost): the first provider of the least cost
CheapestOf(agent, media_type, providers) ==
    LET Cost(n) == Config(agent, media_type, n).cost
        least == CHOOSE c \in {Cost(n) : n \in Range(providers)} :
                    \A n \in Range(providers) : c <= Cost(n)
    IN providers[CHOOSE i \in 1..Len(providers) :
                    /\ Cost(providers[i]) = least
                    /\ \A j \in 1..(i - 1) : Cost(providers[j]) # least]

\* MediaAgentV2.estimate_cost(content_package)
estimate_cost(agent, content_package) ==
    LET content == ContentOf(content_package)
        img == _get_available_providers(agent, "image", None)
        vid == _get_available_providers(agent, "video", None)
        aud == _get_available_providers(agent, "audio", None)
        image == IF "image_prompts" \in DOMAIN content /\ img # <<>>
                 THEN Config(agent, "image", CheapestOf(agent, "image", img)).cost ELSE 0
        video == IF "video_script" \in DOMAIN content /\ vid # <<>>
                 THEN Config(agent, "video", CheapestOf(agent, "video", vid)).cost ELSE 0
        audio == IF "video_script" \in DOMAIN content /\ aud # <<>>
                    /\ content["video_script"].text_len > 0
                 THEN content["video_script"].text_len * Config(agent, "audio", aud[1]).cost
                 ELSE 0
    IN [image |-> image, video |-> video, audio |-> audio, total |-> image + video + audio]

\* the asset types generate_content_media starts a task for
MediaTasks(content_package) ==
    LET content == ContentOf(content_package)
    IN (IF "image_prompts" \in DOMAIN content THEN {"image"} ELSE {})
       \cup (IF "video_script" \in DOMAIN content THEN {"video"} ELSE {})
       \cup (IF "video_script" \in DOMAIN content /\ content["video_script"].text_len > 0
             THEN {"audio"} ELSE {})

\* what asyncio.gather(..., return_exceptions=True) hands back for one task
GatherOne(asset_type, r) == IF r.raised THEN FailedAsset(asset_type) ELSE r.asset

\* MediaAgentV2.generate_content_media(content_package, platform): the assets
\* dict, keyed by asset type; resp gives each media type's remote behaviour
generate_content_media(agent, content_package, resp) ==
    LET content == ContentOf(content_package)
        Gen(t) == CASE t = "image" -> generate_image(agent, resp["image"])
                    [] t = "video" -> generate_video(agent, resp["video"])
                    [] t = "audio" -> generate_voiceover(agent, content["video_script"].text_len,
                                                         resp["audio"])
    IN [t \in MediaTasks(content_package) |-> GatherOne(t, Gen(t))]

------------------------------------------------------------------------------
(* The nightly workflow: NightlyWorkflowV2 *)

\* WorkflowStage
RESEARCH == "research"
CREATIVE == "creative"
MEDIA == "media"
OPTIMIZE == "optimize"
AB_TEST == "ab_test"
APPROVAL_QUEUE == "approval_queue"
COMPLETE == "complete"

\* the graph of _build_workflow: entry point, edges, END
EntryPoint == "research"
END == "END"

\* a faulty variant of Edge: the research node is wired straight to the media node
EdgeSkippingCreative(node) ==
    CASE node = "research" -> "media"
      [] node = "creative" -> "media"
      [] node = "media" -> "optimize"
      [] node = "optimize" -> "ab_test"
      [] node = "ab_test" -> "finalize"
      [] node = "finalize" -> END

Edge(node) ==
    CASE node = "research" -> "creative"
      [] node = "creative" -> "media"
      [] node = "media" -> "optimize"
      [] node = "optimize" -> "ab_test"
      [] node = "ab_test" -> "finalize"
      [] node = "finalize" -> END

Nodes == {"research", "creative", "media", "optimize", "ab_test", "finalize"}

\* an entry of the error list: f"<Stage> failed for {platform}: {e}"
StageError(stage, platform) == [stage |-> stage, platform |-> platform]

\* operator.add, the reducer ContentWorkflowState declares for "errors"
operator_add(a, b) == a \o b

\* how the graph folds the dict a node returns into its channels: "errors" goes
\* through its reducer, every other key is overwritten
ApplyWrites(chan, returned) ==
    [returned EXCEPT !.errors = operator_add(chan.errors, returned.errors)]

\* the initial_state run() builds
InitialState(platforms, user_api_keys, user_plan, webapp_data) ==
    [platforms |-> platforms,
     user_api_keys |-> user_api_keys,
     user_plan |-> user_plan,
     webapp_data |-> webapp_data,
     research_results |-> EmptyDict,
     content_packages |-> EmptyDict,
     media_assets |-> EmptyDict,
     optimized_content |-> EmptyDict,
     viral_scores |-> EmptyDict,
     ab_test_variants |-> EmptyDict,
     final_content |-> <<>>,
     current_stage |-> RESEARCH,
     errors |-> <<>>,
     cost_estimate |-> 0]

\* the values of the run variables while no run is in progress
NoState == InitialState(<<>>, EmptyDict, None, [name |-> None, text_len |-> 0])
NoFrame == [i |-> 0, dict |-> EmptyDict, scores |-> EmptyDict, list |-> <<>>, total_cost |-> 0]
NoResult == [success |-> None, content |-> <<>>, errors |-> <<>>, cost_estimate |-> 0,
             stages_completed |-> None]
NoAgent == [user_api_keys |-> EmptyDict, user_plan |-> None, providers |-> <<>>,
            video_providers |-> <<>>, audio_providers |-> <<>>]

\* research results: what ResearchAgentV2.research_webapp returns, and the
\* fallback _research_node builds from _get_fallback_content_angles
ResearchOutcomes ==
    { [trending_topics |-> <<"topic">>, content_angles |-> << <<"researched_angle">> >>,
       recommended_hashtags |-> <<"#trend">>],
      [trending_topics |-> <<>>, content_angles |-> <<>>, recommended_hashtags |-> <<>>] }

\* a faulty variant of the fallback: no angle at all
NoFallbackAngles == <<>>

_get_fallback_content_angles == << <<"fallback_angle_1">>, <<"fallback_angle_2">> >>

FallbackResearch ==
    [trending_topics |-> <<>>, content_angles |-> _get_fallback_content_angles,
     recommended_hashtags |-> <<>>]

\* the items of a dict keyed by platform, in insertion order: every such dict
\* is filled in the order of state["platforms"]
Items(platforms, d) == SelectSeq(platforms, LAMBDA q : q \in DOMAIN d)

\* the overall scores OptimizerAgent._calculate_viral_score can give: the
\* least and the greatest weighted sum of its six sub-scores
OverallScores == {50, 93}

\* OptimizerAgent.optimize_content(content_package, platform, webapp_data)
optimize_content(content_package, platform, overall) ==
    [platform |-> platform,
     optimizations |-> [hashtags |-> [hashtags |-> <<"#product", "#category">>],
                        hook_variations |-> << <<"hook_1">>, <<"hook_2">>, <<"hook_3">> >>],
     viral_score |-> [overall |-> overall]]

\* s[:n]
Prefix(s, n) == SubSeq(s, 1, Min(n, Len(s)))

\* the slice that makes a title of a caption: text[:50]
TitleLen == 50

\* whether old occurs in s at position i
OccursAt(s, old, i) ==
    /\ i + Len(old) - 1 <= Len(s)
    /\ \A j \in 1..Len(old) : s[i + j - 1] = old[j]

RECURSIVE ReplaceFrom(_, _, _, _)
ReplaceFrom(s, old, new, i) ==
    IF i > Len(s) THEN <<>>
    ELSE IF OccursAt(s, old, i)
         THEN new \o ReplaceFrom(s, old, new, i + Len(old))
         ELSE <<s[i]>> \o ReplaceFrom(s, old, new, i + 1)

RECURSIVE Interleave(_, _)
Interleave(s, new) == IF s = <<>> THEN new ELSE new \o <<Head(s)>> \o Interleave(Tail(s), new)

\* str.replace(old, new); an empty old matches before every character and at the end
Replace(s, old, new) == IF old = <<>> THEN Interleave(s, new) ELSE ReplaceFrom(s, old, new, 1)

\* variant A of _generate_ab_variants: the optimized draft as it is
VariantA(original_content, optimized_content) ==
    LET text == Get(Get(ContentOf(original_content), "caption", EmptyDict), "text", <<>>)
        opts == Get(optimized_content, "optimizations", EmptyDict)
    IN [variant_id |-> "A",
        title |-> Prefix(text, TitleLen),
        caption |-> text,
        hashtags |-> Get(Get(opts, "hashtags", EmptyDict), "hashtags", <<>>),
        viral_score |-> IF "viral_score" \in DOMAIN optimized_content
                        THEN optimized_content.viral_score.overall ELSE 50,
        content_angle |-> Get(original_content, "content_angle", EmptyDict)]

\* a faulty variant of VariantB: the raised score is not cut at 100
VariantBUncapped(variant_a, hooks) ==
    [variant_a EXCEPT !.variant_id = "B",
                      !.title = hooks[1],
                      !.viral_score = variant_a.viral_score + 5]

\* a faulty variant of VariantB: the score of the control, not raised
VariantBWithoutBoost(variant_a, hooks) ==
    [variant_a EXCEPT !.variant_id = "B",
                      !.title = hooks[1]]

\* variant B: the first alternate hook as the title, the score raised by 5
VariantB(variant_a, hooks) ==
    [variant_a EXCEPT !.variant_id = "B",
                      !.title = hooks[1],
                      !.viral_score = Min(100, variant_a.viral_score + 5)]

\* variant C: the recommended CTA replaced by the second alternative, or by
\* the first when there is no second
VariantC(variant_a, cta, ctas) ==
    [variant_a EXCEPT !.variant_id = "C",
                      !.caption = Replace(variant_a.caption,
                                          Get(cta, "recommended", <<>>),
                                          IF Len(ctas) > 1 THEN ctas[2] ELSE ctas[1])]

\* optimized_content.get("optimizations", {}).get("hook_variations", [])
HooksOf(optimized_content) ==
    Get(Get(optimized_content, "optimizations", EmptyDict), "hook_variations", <<>>)

\* original_content.get("content", {}).get("cta", {})
CtaOf(original_content) == Get(ContentOf(original_content), "cta", EmptyDict)

\* a faulty variant of _generate_ab_variants: the control is left out when the
\* base draft has no caption
VariantsWithoutControl(platform, original_content, optimized_content) ==
    LET content == ContentOf(original_content)
        variant_a == VariantA(original_content, optimized_content)
        hooks == HooksOf(optimized_content)
        with_a == IF "caption" \in DOMAIN content THEN << variant_a >> ELSE <<>>
        with_b ==
            IF Get(content, "video_script", EmptyDict) # EmptyDict /\ hooks # <<>>
            THEN Append(with_a, VariantB(variant_a, hooks))
            ELSE with_a
        cta == CtaOf(original_content)
        ctas == Get(cta, "variations", <<>>)
    IN IF Len(with_b) < 3 /\ ctas # <<>>
       THEN Append(with_b, VariantC(variant_a, cta, ctas))
       ELSE with_b

\* a faulty variant of _generate_ab_variants: variant B is added whenever
\* there are alternate hooks
VariantsWithHookOnly(platform, original_content, optimized_content) ==
    LET variant_a == VariantA(original_content, optimized_content)
        hooks == HooksOf(optimized_content)
        with_b ==
            IF hooks # <<>>
            THEN << variant_a, VariantB(variant_a, hooks) >>
            ELSE << variant_a >>
        cta == CtaOf(original_content)
        ctas == Get(cta, "variations", <<>>)
    IN IF Len(with_b) < 3 /\ ctas # <<>>
       THEN Append(with_b, VariantC(variant_a, cta, ctas))
       ELSE with_b

\* a faulty variant of _generate_ab_variants: variant C is added only when
\* there is a second CTA alternative
VariantsWithSecondCta(platform, original_content, optimized_content) ==
    LET content == ContentOf(original_content)
        variant_a == VariantA(original_content, optimized_content)
        hooks == HooksOf(optimized_content)
        with_b ==
            IF Get(content, "video_script", EmptyDict) # EmptyDict /\ hooks # <<>>
            THEN << variant_a, VariantB(variant_a, hooks) >>
            ELSE << variant_a >>
        cta == CtaOf(original_content)
        ctas == Get(cta, "variations", <<>>)
    IN IF Len(with_b) < 3 /\ Len(ctas) > 1
       THEN Append(with_b, VariantC(variant_a, cta, ctas))
       ELSE with_b

\* NightlyWorkflowV2._generate_ab_variants(platform, original_content, optimized_content)
_generate_ab_variants(platform, original_content, optimized_content) ==
    LET content == ContentOf(original_content)
        variant_a == VariantA(original_content, optimized_content)
        hooks == HooksOf(optimized_content)
        with_b ==
            IF Get(content, "video_script", EmptyDict) # EmptyDict /\ hooks # <<>>
            THEN << variant_a, VariantB(variant_a, hooks) >>
            ELSE << variant_a >>
        cta == CtaOf(original_content)
        ctas == Get(cta, "variations", <<>>)
    IN IF Len(with_b) < 3 /\ ctas # <<>>
       THEN Append(with_b, VariantC(variant_a, cta, ctas))
       ELSE with_b

\* a faulty variant of BestVariant: the last of the best
LastBestVariant(variants) ==
    variants[CHOOSE i \in 1..Len(variants) :
                /\ \A j \in 1..Len(variants) : variants[j].viral_score <= variants[i].viral_score
                /\ \A j \in (i + 1)..Len(variants) :
                        variants[j].viral_score < variants[i].viral_score]

\* max(variants, key=lambda v: v.get("viral_score", 0)): the first of the best
BestVariant(variants) ==
    variants[CHOOSE i \in 1..Len(variants) :
                /\ \A j \in 1..Len(variants) : variants[j].viral_score <= variants[i].viral_score
                /\ \A j \in 1..(i - 1) : variants[j].viral_score < variants[i].viral_score]

\* NightlyWorkflowV2._determine_content_type
_determine_content_type(platform) ==
    IF platform \in {"youtube_shorts", "instagram_reels", "facebook_reels", "tiktok"}
    THEN "video"
    ELSE IF platform \in {"instagram", "facebook"} THEN "image" ELSE "text"

\* the order the assets dict of one platform is filled in
AssetOrder == <<"image", "video", "audio">>

\* NightlyWorkflowV2._extract_media_urls(platform, media_assets)
_extract_media_urls(platform, media_assets) ==
    LET platform_assets == Get(media_assets, platform, EmptyDict)
        UrlOf(t) == platform_assets[t].url
    IN SeqMap(UrlOf, SelectSeq(AssetOrder,
                               LAMBDA t : t \in DOMAIN platform_assets
                                          /\ Truthy(platform_assets[t].url)))

\* the content item _finalize_node builds from the best variant
ContentItem(platform, best_variant, st) ==
    [platform |-> platform,
     type |-> _determine_content_type(platform),
     status |-> "pending",
     title |-> best_variant.title,
     caption |-> best_variant.caption,
     hashtags |-> best_variant.hashtags,
     media_urls |-> _extract_media_urls(platform, st.media_assets),
     viral_score |-> best_variant.viral_score,
     variant_id |-> best_variant.variant_id,
     is_variant |-> TRUE,
     cost_estimate |-> st.cost_estimate]

------------------------------------------------------------------------------
(* The media router on its own: one agent, any sequence of calls *)

\* the providers whose call goes out to a remote service
RemoteProviders(media_type) ==
    CASE media_type = "image" -> ProviderNames("image")
      [] media_type = "video" -> {"runway"}
      [] media_type = "audio" -> {"elevenlabs"}

\* the remote providers a call on the agent can reach
Reachable(agent, media_type) ==
    {c.name : c \in {d \in Range(ProvidersOf(agent, media_type)) : Truthy(d.key)}}
        \cap RemoteProviders(media_type)

\* the behaviours of the remote services that a call can observe; a provider
\* that is never called answers "ok"
ResponseMaps(agent, media_type) ==
    {[n \in RemoteProviders(media_type) |-> IF n \in DOMAIN r THEN r[n] ELSE "ok"] :
        r \in [Reachable(agent, media_type) -> Responses]}

NoCall == [op |-> None, media_type |-> None, priority |-> None, text_len |-> 0,
           resp |-> <<>>, result |-> GenResult(FALSE, NoAsset, <<>>, <<>>)]

InitMedia ==
    /\ environ \in Environments
    /\ \E user_api_keys \in UserKeyMaps, user_plan \in PlanTypes :
            media_agent = MediaAgentV2(user_api_keys, user_plan)
    /\ last_call = NoCall
    /\ pc = "idle"
    /\ channels = NoState
    /\ state = NoState
    /\ frame = NoFrame
    /\ result = NoResult
    /\ executed = <<>>
    /\ work = <<>>
    /\ faults = 0
    /\ poll = NoPoll
    /\ scored = NoScore
    /\ runs = NoRuns
    /\ task = NoTask

\* a call of _get_available_providers(media_type, priority)
GetAvailableProviders ==
    /\ last_call = NoCall
    /\ \E media_type \in MediaTypes, priority \in {None, FREE, CHEAP, PREMIUM} :
            last_call' = [op |-> "_get_available_providers", media_type |-> media_type,
                          priority |-> priority, text_len |-> 0, resp |-> <<>>,
                          result |-> GenResult(FALSE, NoAsset,
                                _get_available_providers(media_agent, media_type, priority),
                                <<>>)]
    /\ UNCHANGED <<environ, media_agent, run_vars, poll, scored, runs, task>>

\* a call of generate_image
GenerateImage ==
    /\ last_call = NoCall
    /\ \E resp \in ResponseMaps(media_agent, "image") :
            last_call' = [op |-> "generate", media_type |-> "image",
                          priority |-> ImagePriority(media_agent, TRUE),
                          text_len |-> 0, resp |-> resp,
                          result |-> generate_image(media_agent, resp)]
    /\ UNCHANGED <<environ, media_agent, run_vars, poll, scored, runs, task>>

\* a call of generate_video
GenerateVideo ==
    /\ last_call = NoCall
    /\ \E resp \in ResponseMaps(media_agent, "video") :
            last_call' = [op |-> "generate", media_type |-> "video", priority |-> None,
                          text_len |-> 0, resp |-> resp,
                          result |-> generate_video(media_agent, resp)]
    /\ UNCHANGED <<environ, media_agent, run_vars, poll, scored, runs, task>>

\* a call of generate_voiceover
GenerateVoiceover ==
    /\ last_call = NoCall
    /\ \E resp \in ResponseMaps(media_agent, "audio"), text_len \in 0..MaxTextLen :
            last_call' = [op |-> "generate", media_type |-> "audio", priority |-> None,
                          text_len |-> text_len, resp |-> resp,
                          result |-> generate_voiceover(media_agent, text_len, resp)]
    /\ UNCHANGED <<environ, media_agent, run_vars, poll, scored, runs, task>>

\* the content packages estimate_cost is asked about: one per platform of the
\* pool, with a voiceover text of any length up to MaxTextLen
EstimatedPackages ==
    {generate_content_package(FallbackResearch, platform, text_len) :
        platform \in PlatformPool, text_len \in 0..MaxTextLen}

\* a call of estimate_cost(content_package)
EstimateCost ==
    /\ last_call = NoCall
    /\ \E content_package \in EstimatedPackages :
            last_call' = [op |-> "estimate_cost", media_type |-> None, priority |-> None,
                          text_len |-> 0, resp |-> <<>>,
                          result |-> [content_package |-> content_package,
                                      estimate |-> estimate_cost(media_agent, content_package)]]
    /\ UNCHANGED <<environ, media_agent, run_vars, poll, scored, runs, task>>

\* the caller is done with the result; the agent serves the next call
ReturnCall ==
    /\ last_call # NoCall
    /\ last_call' = NoCall
    /\ UNCHANGED <<environ, media_agent, run_vars, poll, scored, runs, task>>

NextMedia ==
    \/ GetAvailableProviders
    \/ GenerateImage
    \/ GenerateVideo
    \/ GenerateVoiceover
    \/ EstimateCost
    \/ ReturnCall

SpecMedia == InitMedia /\ [][NextMedia]_vars

------------------------------------------------------------------------------
(* Polling of an asynchronous job: _poll_leonardo_generation,                *)
(* _poll_replicate_prediction, _poll_runway_generation                       *)

\* the default max_attempts of the three polling helpers
LeonardoMaxAttempts == 60
ReplicateMaxAttempts == 60
RunwayMaxAttempts == 120

\* the providers whose generation call creates a job and polls it
PolledProviders == {"leonardo", "replicate", "runway"}

max_attempts(provider) ==
    CASE provider = "leonardo" -> LeonardoMaxAttempts
      [] provider = "replicate" -> ReplicateMaxAttempts
      [] provider = "runway" -> RunwayMaxAttempts

PolledMediaType(provider) == IF provider = "runway" THEN "video" ELSE "image"

\* what one status check finds: the job still running, done, reported failed
\* by the service, or an HTTP error status (response.raise_for_status())
JobStatuses == {"pending", "success", "failed", "http_error"}

\* the helpers that test for a failure status: _poll_replicate_prediction
\* ("failed") and _poll_runway_generation ("FAILED"); _poll_leonardo_generation
\* tests for "COMPLETE" only
RaisesOnFailed(provider) == provider \in {"replicate", "runway"}

\* how one iteration of the polling loop ends for the status it reads:
\* None when the loop sleeps and goes on
CheckOutcome(provider, status) ==
    CASE status = "http_error" -> "exception"
      [] status = "success" -> "url"
      [] status = "failed" /\ RaisesOnFailed(provider) -> "exception"
      [] OTHER -> None

\* the caller's keys under which the three polled providers are candidates
PollKeys ==
    [k \in {"LEONARDO_API_KEY", "REPLICATE_API_TOKEN", "RUNWAY_API_KEY"} |-> "uk"]

\* the candidate list of the generate call of a media type
CandidatesOf(agent, media_type) ==
    _get_available_providers(agent, media_type,
        IF media_type = "image" THEN ImagePriority(agent, TRUE) ELSE None)

InitPoll ==
    /\ environ = BlankEnvironment
    /\ \E user_plan \in PlanTypes : media_agent = MediaAgentV2(PollKeys, user_plan)
    /\ last_call = NoCall
    /\ pc = "idle"
    /\ channels = NoState
    /\ state = NoState
    /\ frame = NoFrame
    /\ result = NoResult
    /\ executed = <<>>
    /\ work = <<>>
    /\ faults = 0
    /\ poll = NoPoll
    /\ scored = NoScore
    /\ runs = NoRuns
    /\ task = NoTask

\* a generate call has reached a polled provider, whose job was created: the
\* polling helper is entered
PollStart ==
    /\ poll = NoPoll
    /\ \E provider \in PolledProviders :
            /\ provider \in Range(CandidatesOf(media_agent, PolledMediaType(provider)))
            /\ poll' = [provider |-> provider, attempt |-> 0, last |-> None, outcome |-> None]
    /\ UNCHANGED <<environ, media_agent, last_call, run_vars, scored, runs, task>>

\* one iteration of "for attempt in range(max_attempts)": a status check
PollCheck ==
    /\ poll.provider # None
    /\ poll.outcome = None
    /\ poll.attempt < max_attempts(poll.provider)
    /\ \E status \in JobStatuses :
            poll' = [poll EXCEPT !.attempt = poll.attempt + 1,
                                 !.last = status,
                                 !.outcome = CheckOutcome(poll.provider, status)]
    /\ UNCHANGED <<environ, media_agent, last_call, run_vars, scored, runs, task>>

\* the loop is exhausted: raise TimeoutError(...)
PollTimeout ==
    /\ poll.provider # None
    /\ poll.outcome = None
    /\ poll.attempt = max_attempts(poll.provider)
    /\ poll' = [poll EXCEPT !.outcome = "timeout"]
    /\ UNCHANGED <<environ, media_agent, last_call, run_vars, scored, runs, task>>

\* the helper has returned or raised inside the provider loop of the generate
\* call, which goes on to its end; the candidates before the polled provider
\* had failed
PollReturn ==
    /\ poll.outcome # None
    /\ last_call = NoCall
    /\ LET media_type == PolledMediaType(poll.provider)
           candidates == CandidatesOf(media_agent, media_type)
           at == CHOOSE i \in 1..Len(candidates) : candidates[i] = poll.provider
       IN \E resp \in ResponseMaps(media_agent, media_type) :
            /\ resp[poll.provider] = IF poll.outcome = "url" THEN "ok" ELSE "exc"
            /\ \A i \in 1..(at - 1) :
                    candidates[i] \in DOMAIN resp => resp[candidates[i]] = "exc"
            /\ last_call' = [op |-> "generate", media_type |-> media_type,
                             priority |-> IF media_type = "image"
                                          THEN ImagePriority(media_agent, TRUE) ELSE None,
                             text_len |-> 0, resp |-> resp,
                             result |-> IF media_type = "image"
                                        THEN generate_image(media_agent, resp)
                                        ELSE generate_video(media_agent, resp)]
    /\ UNCHANGED <<environ, media_agent, run_vars, poll, scored, runs, task>>

NextPoll ==
    \/ PollStart
    \/ PollCheck
    \/ PollTimeout
    \/ PollReturn

SpecPoll == InitPoll /\ [][NextPoll]_vars

------------------------------------------------------------------------------
(* The scoring engine: OptimizerAgent._calculate_viral_score                 *)

\* A text is known to the scorer by its length in characters and by the
\* phrases of its lists that occur in it.

\* the sizes of the viral_patterns list of _score_hook and of the three
\* trigger lists of _score_emotional_impact
ViralPatternCount == 9
PositiveTriggerCount == 6
NegativeTriggerCount == 5
UrgencyTriggerCount == 5

Max(a, b) == IF a >= b THEN a ELSE b

\* video_script.get("hook", "") and caption.get("text", "") of a missing entry
EmptyHook == [length |-> 0, patterns |-> 0, tiktok_words |-> FALSE]
EmptyText == [length |-> 0, positive |-> 0, negative |-> 0, urgency |-> 0]

\* a faulty variant of _score_hook: the score is returned as it was added up
UnclampedHook(hook, platform) ==
    50 + 10 * hook.patterns
       + (IF hook.length < 10 THEN -10 ELSE IF hook.length > 100 THEN -5 ELSE 5)
       + (IF platform = "tiktok" /\ hook.tiktok_words THEN 10 ELSE 0)

\* OptimizerAgent._score_hook(hook, platform)
_score_hook(hook, platform) ==
    LET score == 50
                 + 10 * hook.patterns
                 + (IF hook.length < 10 THEN -10
                    ELSE IF hook.length > 100 THEN -5 ELSE 5)
                 + (IF platform = "tiktok" /\ hook.tiktok_words THEN 10 ELSE 0)
    IN Min(100, Max(0, score))

\* OptimizerAgent._score_emotional_impact(text)
_score_emotional_impact(text) ==
    Min(100, 50 + 5 * text.positive + 3 * text.negative + 4 * text.urgency)

\* OptimizerAgent._score_shareability(content_package, platform)
_score_shareability(content_package, platform) ==
    LET content == ContentOf(content_package)
    IN Min(100,
           50 + (IF "cta" \in DOMAIN content THEN 10 ELSE 0)
              + (IF "caption" \in DOMAIN content
                    /\ Get(content["caption"], "text", EmptyText).length > 50
                 THEN 5 ELSE 0)
              + (IF "image_prompts" \in DOMAIN content \/ "video_script" \in DOMAIN content
                 THEN 15 ELSE 0)
              + (IF platform \in {"tiktok", "instagram"} /\ "video_script" \in DOMAIN content
                 THEN 10 ELSE 0))

\* platform.split("_")[0] for the platforms of the scoring model
PlatformKey(platform) ==
    CASE platform = "youtube_shorts" -> "youtube"
      [] OTHER -> platform

\* optimal_hours.get(platform_key, [12])
OptimalHours(platform_key) ==
    CASE platform_key = "youtube" -> <<12, 15, 18>>
      [] platform_key = "tiktok" -> <<7, 12, 19>>
      [] platform_key = "instagram" -> <<11, 14, 19>>
      [] platform_key = "facebook" -> <<9, 13, 15>>
      [] platform_key = "twitter" -> <<8, 12, 17>>
      [] platform_key = "linkedin" -> <<8, 12, 17>>
      [] OTHER -> <<12>>

Abs(x) == IF x < 0 THEN -x ELSE x

\* a faulty variant of _score_timing: the minute of the clock counts as well
ScoreTimingByMinute(platform, now) ==
    LET optimal == OptimalHours(PlatformKey(platform))
    IN IF now.hour \in Range(optimal) /\ now.minute = 0 THEN 90
       ELSE IF \E h \in Range(optimal) : Abs(now.hour - h) <= 1 THEN 75
       ELSE 60

\* OptimizerAgent._score_timing(platform); now is datetime.now()
_score_timing(platform, now) ==
    LET hour == now.hour
        optimal == OptimalHours(PlatformKey(platform))
    IN IF hour \in Range(optimal) THEN 90
       ELSE IF \E h \in Range(optimal) : Abs(hour - h) <= 1 THEN 75
       ELSE 60

UniqueFormats == {"pov", "transformation", "day_in_life", "comparison"}

\* OptimizerAgent._score_uniqueness(content_package, webapp_data); a content
\* mentions the product when its caption does
_score_uniqueness(content_package, webapp_data) ==
    LET content == ContentOf(content_package)
        angle == Get(content_package, "content_angle", EmptyDict)
    IN Min(100,
           60 + (IF angle # EmptyDict /\ Get(angle, "format", None) \in UniqueFormats
                 THEN 15 ELSE 0)
              + (IF "caption" \in DOMAIN content THEN 10 ELSE 0))

\* OptimizerAgent._score_trend_alignment(webapp_data), with self.trend_data
_score_trend_alignment(webapp_data, trend_data) ==
    LET category == Get(webapp_data, "category", "SaaS")
        trending_categories == Get(trend_data, "trending_categories", <<>>)
    IN Min(100,
           50 + (IF category \in Range(trending_categories) THEN 25 ELSE 0)
              + (IF category \in {"SaaS", "Developer Tools", "AI"} THEN 15 ELSE 0))

\* base_reach.get(platform_key, 10000)
BaseReach(platform_key) ==
    CASE platform_key = "youtube" -> 10000
      [] platform_key = "tiktok" -> 50000
      [] platform_key = "instagram" -> 15000
      [] platform_key = "facebook" -> 8000
      [] platform_key = "twitter" -> 5000
      [] platform_key = "linkedin" -> 3000
      [] OTHER -> 10000

\* the <<base, viral_score>> pairs for which the double product
\* base * (viral_score / 50) lies just below the exact one
RoundedBelow ==
    { <<50000, 29>>, <<3000, 29>>, <<10000, 57>>, <<50000, 57>>, <<5000, 57>>,
      <<3000, 57>>, <<50000, 58>>, <<3000, 58>>, <<10000, 69>>, <<5000, 69>> }

\* OptimizerAgent._estimate_reach(viral_score, platform)
_estimate_reach(viral_score, platform) ==
    LET base == BaseReach(PlatformKey(platform))
    IN ((base * viral_score) \div 50)
       - (IF <<base, viral_score>> \in RoundedBelow THEN 1 ELSE 0)

\* a faulty variant of _generate_feedback: the timing rule uses the threshold
\* of the other five
FeedbackAtSeventy(hook, emotional, shareable, timing, unique, trend) ==
    [positive |->
        (IF hook >= 70 THEN <<"strong_hook">> ELSE <<>>)
        \o (IF emotional >= 70 THEN <<"emotional_resonance">> ELSE <<>>)
        \o (IF shareable >= 70 THEN <<"high_shareability">> ELSE <<>>)
        \o (IF timing >= 70 THEN <<"optimal_posting_time">> ELSE <<>>)
        \o (IF unique >= 70 THEN <<"unique_angle">> ELSE <<>>)
        \o (IF trend >= 70 THEN <<"trend_aligned">> ELSE <<>>),
     negative |-> IF hook >= 70 THEN <<>> ELSE <<"weak_hook">>,
     recommendations |->
        (IF hook >= 70 THEN <<>> ELSE <<"improve_hook">>)
        \o (IF emotional >= 70 THEN <<>> ELSE <<"add_emotion">>)
        \o (IF shareable >= 70 THEN <<>> ELSE <<"add_cta">>)
        \o (IF timing >= 70 THEN <<>> ELSE <<"post_at_peak">>)
        \o (IF unique >= 70 THEN <<>> ELSE <<"change_format">>)
        \o (IF trend >= 70 THEN <<>> ELSE <<"add_trends">>)]

\* OptimizerAgent._generate_feedback(hook, emotional, shareable, timing, unique, trend)
_generate_feedback(hook, emotional, shareable, timing, unique, trend) ==
    [positive |->
        (IF hook >= 70 THEN <<"strong_hook">> ELSE <<>>)
        \o (IF emotional >= 70 THEN <<"emotional_resonance">> ELSE <<>>)
        \o (IF shareable >= 70 THEN <<"high_shareability">> ELSE <<>>)
        \o (IF timing >= 80 THEN <<"optimal_posting_time">> ELSE <<>>)
        \o (IF unique >= 70 THEN <<"unique_angle">> ELSE <<>>)
        \o (IF trend >= 70 THEN <<"trend_aligned">> ELSE <<>>),
     negative |-> IF hook >= 70 THEN <<>> ELSE <<"weak_hook">>,
     recommendations |->
        (IF hook >= 70 THEN <<>> ELSE <<"improve_hook">>)
        \o (IF emotional >= 70 THEN <<>> ELSE <<"add_emotion">>)
        \o (IF shareable >= 70 THEN <<>> ELSE <<"add_cta">>)
        \o (IF timing >= 80 THEN <<>> ELSE <<"post_at_peak">>)
        \o (IF unique >= 70 THEN <<>> ELSE <<"change_format">>)
        \o (IF trend >= 70 THEN <<>> ELSE <<"add_trends">>)]

\* OptimizerAgent._calculate_viral_score(content_package, platform, webapp_data),
\* with self.trend_data and the clock it reads; the weighted sum of doubles is
\* truncated by int(), which for these scores is the integer quotient
_calculate_viral_score(content_package, platform, webapp_data, trend_data, now) ==
    LET content == ContentOf(content_package)
        caption == Get(content, "caption", EmptyDict)
        video_script == Get(content, "video_script", EmptyDict)
        hook_strength == _score_hook(Get(video_script, "hook", EmptyHook), platform)
        emotional_impact == _score_emotional_impact(Get(caption, "text", EmptyText))
        shareability == _score_shareability(content_package, platform)
        timing_score == _score_timing(platform, now)
        uniqueness == _score_uniqueness(content_package, webapp_data)
        trend_alignment == _score_trend_alignment(webapp_data, trend_data)
        overall == (25 * hook_strength + 20 * emotional_impact + 20 * shareability
                    + 10 * timing_score + 15 * uniqueness + 10 * trend_alignment) \div 100
        feedback == _generate_feedback(hook_strength, emotional_impact, shareability,
                                       timing_score, uniqueness, trend_alignment)
    IN [overall |-> overall,
        hook_strength |-> hook_strength,
        emotional_impact |-> emotional_impact,
        shareability |-> shareability,
        timing_score |-> timing_score,
        uniqueness |-> uniqueness,
        trend_alignment |-> trend_alignment,
        viral_probability |-> Min(100, (85 * overall) \div 100),
        estimated_reach |-> _estimate_reach(overall, platform),
        positive_factors |-> feedback.positive,
        negative_factors |-> feedback.negative,
        recommendations |-> feedback.recommendations]

\* the inputs of the scoring model: hooks on both sides of the two length
\* limits, with no, one or every viral pattern (a pattern takes at least four
\* characters, all nine take 95)
HookLengths == {0, 9, 10, 100, 101}
PatternCounts == {0, 1, ViralPatternCount}

Hooks ==
    {h \in [length : HookLengths, patterns : PatternCounts, tiktok_words : BOOLEAN] :
        /\ 4 * h.patterns <= h.length
        /\ h.patterns = ViralPatternCount => h.length >= 95
        /\ h.tiktok_words => h.length >= 3}

\* captions on both sides of the length limit of _score_shareability, with no
\* trigger, with triggers that add up to 69 and to 70, and with every trigger
Captions ==
    { [length |-> 50, positive |-> 0, negative |-> 0, urgency |-> 0],
      [length |-> 51, positive |-> 3, negative |-> 0, urgency |-> 1],
      [length |-> 51, positive |-> 4, negative |-> 0, urgency |-> 0],
      [length |-> 51, positive |-> PositiveTriggerCount, negative |-> NegativeTriggerCount,
       urgency |-> UrgencyTriggerCount] }

\* the key sets of the content of a package: none, a caption only, what an
\* image platform gets, what a video platform gets
ContentKeySets ==
    { {}, {"caption"}, {"caption", "cta", "image_prompts"},
      {"caption", "cta", "video_script"} }

ScoredPackages ==
    UNION {
        { [content_angle |-> [format |-> f],
           content |-> [k \in keys |->
                           CASE k = "caption" -> [text |-> text]
                             [] k = "video_script" -> [hook |-> hook]
                             [] OTHER -> [present |-> TRUE]]] :
            text \in IF "caption" \in keys THEN Captions ELSE {EmptyText},
            hook \in IF "video_script" \in keys THEN Hooks ELSE {EmptyHook} } :
        keys \in ContentKeySets, f \in {"pov", "tutorial"} }

ScoredPlatforms == {"tiktok", "instagram", "youtube_shorts", "mastodon"}

ScoredWebApps == {[name |-> "Flowly", category |-> c] : c \in {"SaaS", "Gaming"}}

TrendContexts == {EmptyDict, [trending_categories |-> <<"SaaS", "Gaming">>]}

Hours == 0..23

InitScore ==
    /\ environ = BlankEnvironment
    /\ media_agent = NoAgent
    /\ last_call = NoCall
    /\ pc = "idle"
    /\ channels = NoState
    /\ state = NoState
    /\ frame = NoFrame
    /\ result = NoResult
    /\ executed = <<>>
    /\ work = <<>>
    /\ faults = 0
    /\ poll = NoPoll
    /\ scored = NoScore
    /\ runs = NoRuns
    /\ task = NoTask

\* one evaluation, at time now, of the inputs
Evaluation(inputs, now) ==
    [now |-> now,
     result |-> _calculate_viral_score(inputs.content_package, inputs.platform,
                                       inputs.webapp_data, inputs.trend_data, now)]

\* the first call of _calculate_viral_score
CalculateViralScore ==
    /\ scored = NoScore
    /\ \E content_package \in ScoredPackages, platform \in ScoredPlatforms,
          webapp_data \in ScoredWebApps, trend_data \in TrendContexts, hour \in Hours :
            LET inputs == [content_package |-> content_package, platform |-> platform,
                           webapp_data |-> webapp_data, trend_data |-> trend_data]
            IN scored' = [op |-> "score", inputs |-> inputs,
                          evaluations |-> <<Evaluation(inputs, [hour |-> hour, minute |-> 0])>>]
    /\ UNCHANGED <<environ, media_agent, last_call, run_vars, poll, runs, task>>

\* a second call on the same inputs, half an hour or an hour later
CalculateAgain ==
    /\ scored.op = "score"
    /\ Len(scored.evaluations) = 1
    /\ LET first == scored.evaluations[1].now
       IN \E now \in {[hour |-> first.hour, minute |-> 30],
                      [hour |-> (first.hour + 1) % 24, minute |-> 0]} :
            scored' = [scored EXCEPT
                          !.evaluations = Append(@, Evaluation(scored.inputs, now))]
    /\ UNCHANGED <<environ, media_agent, last_call, run_vars, poll, runs, task>>

NextScore ==
    \/ CalculateViralScore
    \/ CalculateAgain

SpecScore == InitScore /\ [][NextScore]_vars

------------------------------------------------------------------------------
(* The variant generator on its own: _generate_ab_variants on any drafts     *)

\* the most CTA alternatives and alternate hooks of the drafts of this part
MaxCtas == 2
MaxHooks == 2

\* base drafts: the {} a failed creative stage leaves, and packages with any
\* of the four content entries, an empty video script included, and up to
\* MaxCtas CTA alternatives
BaseDrafts ==
    {EmptyDict} \cup
    UNION {
        { [content_angle |-> <<"default_angle">>,
           content |-> [k \in keys |->
                CASE k = "caption" -> [text |-> <<"caption_hook", "caption_body">>]
                  [] k = "cta" -> [variations |-> Prefix(CtaVariations, n),
                                   recommended |-> CtaVariations[1]]
                  [] k = "video_script" -> script
                  [] k = "image_prompts" -> [primary |-> <<"image_prompt">>]]] :
            n \in IF "cta" \in keys THEN 0..MaxCtas ELSE {0},
            script \in IF "video_script" \in keys
                       THEN {EmptyDict, [hook |-> <<"script_hook">>, text_len |-> 1]}
                       ELSE {EmptyDict} } :
        keys \in SUBSET {"caption", "cta", "video_script", "image_prompts"} }

\* optimized drafts: the {} a failed optimize stage leaves, and drafts with up
\* to MaxHooks alternate hooks and a low, a high or the highest overall score
OptimizedDrafts ==
    {EmptyDict} \cup
    { [platform |-> None,
       optimizations |-> [hashtags |-> [hashtags |-> <<"#product">>],
                          hook_variations |-> Prefix(<< <<"hook_1">>, <<"hook_2">>, <<"hook_3">> >>, n)],
       viral_score |-> [overall |-> overall]] :
        n \in 0..MaxHooks, overall \in {50, 98, 100} }

InitVariants ==
    /\ environ = BlankEnvironment
    /\ media_agent = NoAgent
    /\ last_call = NoCall
    /\ pc = "idle"
    /\ channels = NoState
    /\ state = NoState
    /\ frame = NoFrame
    /\ result = NoResult
    /\ executed = <<>>
    /\ work = <<>>
    /\ faults = 0
    /\ poll = NoPoll
    /\ scored = NoScore
    /\ runs = NoRuns
    /\ task = NoTask

\* _ab_test_node's call of _generate_ab_variants for one platform
GenerateVariants ==
    /\ scored = NoScore
    /\ \E platform \in PlatformPool, original_content \in BaseDrafts,
          optimized_content \in OptimizedDrafts :
            scored' = [op |-> "variants",
                       platform |-> platform,
                       original_content |-> original_content,
                       optimized_content |-> optimized_content,
                       variants |-> _generate_ab_variants(platform, original_content,
                                                          optimized_content),
                       best |-> <<>>]
    /\ UNCHANGED <<environ, media_agent, last_call, run_vars, poll, runs, task>>

\* _finalize_node's choice of the best variant: "if variants:" guards the max()
SelectWinner ==
    /\ scored.op = "variants"
    /\ scored.best = <<>>
    /\ scored.variants # <<>>
    /\ scored' = [scored EXCEPT !.best = <<BestVariant(scored.variants)>>]
    /\ UNCHANGED <<environ, media_agent, last_call, run_vars, poll, runs, task>>

NextVariants ==
    \/ GenerateVariants
    \/ SelectWinner

SpecVariants == InitVariants /\ [][NextVariants]_vars

------------------------------------------------------------------------------
(* One run of the workflow: NightlyWorkflowV2.run and the graph's nodes *)

\* the order the platforms of the pool are listed in: that of the default
\* platform list of the nightly task
PoolOrder == <<"youtube", "tiktok", "instagram">>

\* the target platform lists: at least one platform, at most MaxPlatforms,
\* each at most once, in the pool's order
PlatformLists ==
    {SelectSeq(PoolOrder, LAMBDA q : q \in S) :
        S \in {T \in SUBSET PlatformPool : T # {} /\ Cardinality(T) <= MaxPlatforms}}

\* the credential maps the runs are given: none, or the user's own keys for
\* a premium provider of each media type
RunKeyMaps ==
    { EmptyDict,
      [k \in {"OPENAI_API_KEY", "RUNWAY_API_KEY", "ELEVENLABS_API_KEY"} |-> "uk"] }

\* the environments the runs are made in: with the user's keys of RunKeyMaps
\* they give no credential at all, free-tier credentials only, premium
\* credentials only, and both
RunEnvironments == { BlankEnvironment, FreeKeyEnvironment }

\* the products the runs are about; text_len is the length of the voiceover
\* text their video scripts come to
WebApps == { [name |-> "Flowly", text_len |-> 2] }

\* the code a node runs before its loop: only _media_node's leaves a trace,
\* the new MediaAgentV2 in self.media_agent
AgentOnEntry(node, st, agent) ==
    IF node = "media" THEN MediaAgentV2(st.user_api_keys, st.user_plan) ELSE agent

\* a faulty variant of LoopDone: the loop is left after its first iteration
LoopDoneEarly(i, items) == i >= Min(1, Len(items))

\* whether a "for ... in items" loop that has done i iterations is over
LoopDone(i, items) == i = Len(items)

Init ==
    /\ environ \in RunEnvironments
    /\ media_agent = NoAgent
    /\ last_call = NoCall
    /\ pc = "idle"
    /\ channels = NoState
    /\ state = NoState
    /\ frame = NoFrame
    /\ result = NoResult
    /\ executed = <<>>
    /\ work = <<>>
    /\ faults = 0
    /\ poll = NoPoll
    /\ scored = NoScore
    /\ runs = NoRuns
    /\ task = NoTask

\* run(): build initial_state and start the graph at its entry point
RunStart ==
    /\ pc = "idle"
    /\ \E platforms \in PlatformLists, user_api_keys \in RunKeyMaps,
          user_plan \in PlanTypes, webapp_data \in WebApps :
            /\ channels' = InitialState(platforms, user_api_keys, user_plan, webapp_data)
            /\ state' = channels'
    /\ pc' = EntryPoint
    /\ UNCHANGED <<environ, media_agent, last_call, poll, scored, runs, task, frame, result, executed, work, faults>>

\* a node returns its state dict: the graph folds it into the channels and
\* starts the next node on a fresh copy of them
NodeReturn(node, returned) ==
    /\ channels' = ApplyWrites(channels, returned)
    /\ state' = channels'
    /\ pc' = Edge(node)
    /\ frame' = NoFrame
    /\ media_agent' = AgentOnEntry(Edge(node), returned, media_agent)
    /\ executed' = Append(executed, node)
    /\ UNCHANGED <<environ, last_call, poll, scored, runs, task, result>>

\* one iteration of a node's loop ends: with the node's local variables
\* updated, or with the exception it caught recorded
StepOk(node, platform, new_frame) ==
    /\ frame' = [new_frame EXCEPT !.i = frame.i + 1]
    /\ work' = Append(work, [stage |-> node, platform |-> platform, ok |-> TRUE])
    /\ UNCHANGED <<environ, media_agent, last_call, poll, scored, runs, task, pc, channels, state, result, executed,
                   faults>>

\* a faulty variant of StepCaught: the exception of one platform discards what
\* the loop had collected for the platforms before it
StepCaughtDropsSiblings(node, platform, tag, new_frame) ==
    /\ faults < MaxFaults
    /\ faults' = faults + 1
    /\ state' = [state EXCEPT !.errors = state.errors \o <<StageError(tag, platform)>>]
    /\ frame' = [new_frame EXCEPT !.i = frame.i + 1, !.dict = EmptyDict,
                                  !.scores = EmptyDict, !.list = <<>>]
    /\ work' = Append(work, [stage |-> node, platform |-> platform, ok |-> FALSE])
    /\ UNCHANGED <<environ, media_agent, last_call, poll, scored, runs, task, pc, channels, result, executed>>

StepCaught(node, platform, tag, new_frame) ==
    /\ faults < MaxFaults
    /\ faults' = faults + 1
    /\ state' = [state EXCEPT !.errors = state.errors \o <<StageError(tag, platform)>>]
    /\ frame' = [new_frame EXCEPT !.i = frame.i + 1]
    /\ work' = Append(work, [stage |-> node, platform |-> platform, ok |-> FALSE])
    /\ UNCHANGED <<environ, media_agent, last_call, poll, scored, runs, task, pc, channels, result, executed>>

\* _research_node
ResearchNode ==
    /\ pc = "research"
    /\ \/ /\ \E research_results \in ResearchOutcomes :
                NodeReturn("research", [state EXCEPT !.research_results = research_results,
                                                     !.current_stage = RESEARCH])
          /\ work' = Append(work, [stage |-> "research", platform |-> None, ok |-> TRUE])
          /\ UNCHANGED faults
       \/ /\ faults < MaxFaults
          /\ faults' = faults + 1
          /\ NodeReturn("research", [state EXCEPT !.errors = <<StageError("Research", None)>>,
                                                  !.research_results = FallbackResearch])
          /\ work' = Append(work, [stage |-> "research", platform |-> None, ok |-> FALSE])

\* _creative_node: one iteration of its loop over state["platforms"]
CreativeStep ==
    /\ pc = "creative"
    /\ ~LoopDone(frame.i, state.platforms)
    /\ LET platform == state.platforms[frame.i + 1]
           package == generate_content_package(state.research_results, platform,
                                               state.webapp_data.text_len)
       IN \/ StepOk("creative", platform,
                    [frame EXCEPT !.dict = Put(frame.dict, platform, package)])
          \/ StepCaught("creative", platform, "Creative", frame)

\* _creative_node: after the loop
CreativeReturn ==
    /\ pc = "creative"
    /\ LoopDone(frame.i, state.platforms)
    /\ NodeReturn("creative", [state EXCEPT !.content_packages = frame.dict,
                                            !.current_stage = CREATIVE])
    /\ UNCHANGED <<work, faults>>

\* isinstance(asset, dict): the assets are MediaAsset instances
IsDict(asset) == FALSE

RECURSIVE SumCosts(_, _)
\* the costs _media_node adds up over assets.values()
SumCosts(assets, types) ==
    IF types = {} THEN 0
    ELSE LET t == CHOOSE x \in types : TRUE
         IN (IF IsDict(assets[t]) THEN assets[t].cost ELSE 0) + SumCosts(assets, types \ {t})

\* the remote behaviours one generate_content_media call can observe: those of
\* the providers of the media types it generates
MediaResponses(agent, content_package) ==
    LET Maps(t) == IF t \in MediaTasks(content_package)
                   THEN ResponseMaps(agent, t)
                   ELSE {[n \in RemoteProviders(t) |-> "ok"]}
    IN {[image |-> ri, video |-> rv, audio |-> ra] :
            ri \in Maps("image"), rv \in Maps("video"), ra \in Maps("audio")}

\* _media_node: one iteration of its loop over state["content_packages"].items()
MediaStep ==
    /\ pc = "media"
    /\ LET items == Items(state.platforms, state.content_packages)
       IN /\ ~LoopDone(frame.i, items)
          /\ LET platform == items[frame.i + 1]
                 package == state.content_packages[platform]
                 estimated == frame.total_cost + estimate_cost(media_agent, package).total
             IN \/ \E resp \in MediaResponses(media_agent, package) :
                        LET assets == generate_content_media(media_agent, package, resp)
                        IN StepOk("media", platform,
                                  [frame EXCEPT !.dict = Put(frame.dict, platform, assets),
                                                !.total_cost = estimated
                                                    + SumCosts(assets, DOMAIN assets)])
                \/ StepCaught("media", platform, "Media",
                              [frame EXCEPT !.total_cost = estimated])

\* _media_node: after the loop
MediaReturn ==
    /\ pc = "media"
    /\ LoopDone(frame.i, Items(state.platforms, state.content_packages))
    /\ NodeReturn("media", [state EXCEPT !.media_assets = frame.dict,
                                         !.cost_estimate = frame.total_cost,
                                         !.current_stage = MEDIA])
    /\ UNCHANGED <<work, faults>>

\* _optimize_node: one iteration of its loop over state["content_packages"].items()
OptimizeStep ==
    /\ pc = "optimize"
    /\ LET items == Items(state.platforms, state.content_packages)
       IN /\ ~LoopDone(frame.i, items)
          /\ LET platform == items[frame.i + 1]
                 package == state.content_packages[platform]
             IN \/ \E overall \in OverallScores :
                        LET optimized == optimize_content(package, platform, overall)
                        IN StepOk("optimize", platform,
                                  [frame EXCEPT
                                      !.dict = Put(frame.dict, platform, optimized),
                                      !.scores = Put(frame.scores, platform,
                                                     optimized.viral_score)])
                \/ StepCaught("optimize", platform, "Optimization", frame)

\* _optimize_node: after the loop
OptimizeReturn ==
    /\ pc = "optimize"
    /\ LoopDone(frame.i, Items(state.platforms, state.content_packages))
    /\ NodeReturn("optimize", [state EXCEPT !.optimized_content = frame.dict,
                                            !.viral_scores = frame.scores,
                                            !.current_stage = OPTIMIZE])
    /\ UNCHANGED <<work, faults>>

\* _ab_test_node: one iteration of its loop over state["platforms"]
AbTestStep ==
    /\ pc = "ab_test"
    /\ ~LoopDone(frame.i, state.platforms)
    /\ LET platform == state.platforms[frame.i + 1]
           variants == _generate_ab_variants(platform,
                            Get(state.content_packages, platform, EmptyDict),
                            Get(state.optimized_content, platform, EmptyDict))
       IN \/ StepOk("ab_test", platform,
                    [frame EXCEPT !.dict = Put(frame.dict, platform, variants)])
          \/ StepCaught("ab_test", platform, "A/B test", frame)

\* _ab_test_node: after the loop
AbTestReturn ==
    /\ pc = "ab_test"
    /\ LoopDone(frame.i, state.platforms)
    /\ NodeReturn("ab_test", [state EXCEPT !.ab_test_variants = frame.dict,
                                           !.current_stage = AB_TEST])
    /\ UNCHANGED <<work, faults>>

\* _finalize_node: one iteration of its loop over state["platforms"]
FinalizeStep ==
    /\ pc = "finalize"
    /\ ~LoopDone(frame.i, state.platforms)
    /\ LET platform == state.platforms[frame.i + 1]
           variants == Get(state.ab_test_variants, platform, <<>>)
       IN \/ StepOk("finalize", platform,
                    IF variants # <<>>
                    THEN [frame EXCEPT !.list = Append(frame.list,
                                ContentItem(platform, BestVariant(variants), state))]
                    ELSE frame)
          \/ /\ variants # <<>>
             /\ StepCaught("finalize", platform, "Finalize", frame)

\* _finalize_node: after the loop
FinalizeReturn ==
    /\ pc = "finalize"
    /\ LoopDone(frame.i, state.platforms)
    /\ NodeReturn("finalize", [state EXCEPT !.final_content = frame.list,
                                            !.current_stage = COMPLETE])
    /\ UNCHANGED <<work, faults>>

\* run(): ainvoke returned the final state
RunReturn ==
    /\ pc = END
    /\ result' = [success |-> TRUE,
                  content |-> channels.final_content,
                  errors |-> channels.errors,
                  cost_estimate |-> channels.cost_estimate,
                  stages_completed |-> channels.current_stage]
    /\ pc' = "returned"
    /\ UNCHANGED <<environ, media_agent, last_call, poll, scored, runs, task, channels, state, frame, executed, work,
                   faults>>

\* run(): an exception left a node outside its per-platform try blocks and
\* ainvoke raised; initial_state is the dict run() built, which no node touched
RunFailure ==
    /\ pc \in Nodes
    /\ frame.i = 0
    /\ faults' = faults + 1
    /\ result' = [success |-> FALSE,
                  content |-> <<>>,
                  errors |-> <<>> \o <<StageError("exception", None)>>,
                  cost_estimate |-> 0,
                  stages_completed |-> None]
    /\ pc' = "returned"
    /\ UNCHANGED <<environ, media_agent, last_call, poll, scored, runs, task, channels, state, frame, executed, work>>

Next ==
    \/ RunStart
    \/ ResearchNode
    \/ CreativeStep
    \/ CreativeReturn
    \/ MediaStep
    \/ MediaReturn
    \/ OptimizeStep
    \/ OptimizeReturn
    \/ AbTestStep
    \/ AbTestReturn
    \/ FinalizeStep
    \/ FinalizeReturn
    \/ RunReturn
    \/ RunFailure

Spec == Init /\ [][Next]_vars

------------------------------------------------------------------------------
(* Concurrent runs on the instance of get_nightly_workflow: the media stage  *)

\* The runs are coroutines of one event loop. _media_node assigns
\* self.media_agent, and in each iteration of its loop reads it twice without
\* suspending in between: for estimate_cost and for the generate_content_media
\* coroutine it creates. The node suspends where that coroutine awaits
\* asyncio.gather, which it does when it has tasks.

RunIds == {1, 2}

\* the credentials and plan of a run
RunContexts ==
    {[user_api_keys |-> k, user_plan |-> p] : k \in RunKeyMaps, p \in PlanTypes}

\* the packages of a run's platforms: dict order is the order of the platforms
PackagesOf(platforms) ==
    [q \in Range(platforms) |-> generate_content_package(FallbackResearch, q, 1)]

\* one iteration of the loop of _media_node for a platform, with the agent
\* that self.media_agent holds when the iteration runs
MediaIteration(agent, platform, package) ==
    [platform |-> platform,
     user_api_keys |-> agent.user_api_keys,
     user_plan |-> agent.user_plan,
     estimate |-> estimate_cost(agent, package).total,
     suspends |-> MediaTasks(package) # {}]

RECURSIVE UntilSuspended(_, _, _, _)
\* the iterations a run makes from iteration i + 1 on without suspending:
\* up to the first one that awaits, or to the end of the loop
UntilSuspended(agent, platforms, i, used) ==
    IF i = Len(platforms) THEN [i |-> i, used |-> used]
    ELSE LET platform == platforms[i + 1]
             it == MediaIteration(agent, platform, PackagesOf(platforms)[platform])
         IN IF it.suspends
            THEN [i |-> i + 1, used |-> Append(used, it)]
            ELSE UntilSuspended(agent, platforms, i + 1, Append(used, it))

InitShared ==
    /\ environ = BlankEnvironment
    /\ media_agent = NoAgent
    /\ last_call = NoCall
    /\ pc = "idle"
    /\ channels = NoState
    /\ state = NoState
    /\ frame = NoFrame
    /\ result = NoResult
    /\ executed = <<>>
    /\ work = <<>>
    /\ faults = 0
    /\ poll = NoPoll
    /\ scored = NoScore
    /\ task = NoTask
    /\ \E c1, c2 \in RunContexts, p1, p2 \in PlatformLists :
            /\ c1.user_api_keys # c2.user_api_keys
            /\ c1.user_plan # c2.user_plan
            /\ runs = [r \in RunIds |->
                        [context |-> IF r = 1 THEN c1 ELSE c2,
                         platforms |-> IF r = 1 THEN p1 ELSE p2,
                         at |-> "before", i |-> 0, used |-> <<>>]]

\* a run enters _media_node: it assigns self.media_agent and runs its loop
\* up to the first suspension
MediaEnter(r) ==
    /\ runs[r].at = "before"
    /\ LET agent == MediaAgentV2(runs[r].context.user_api_keys, runs[r].context.user_plan)
           went == UntilSuspended(agent, runs[r].platforms, 0, <<>>)
       IN /\ media_agent' = agent
          /\ runs' = [runs EXCEPT ![r].at = "loop", ![r].i = went.i, ![r].used = went.used]
    /\ UNCHANGED <<environ, last_call, run_vars, poll, scored, task>>

\* a suspended run is resumed: its loop goes on with what self.media_agent
\* holds now
MediaResume(r) ==
    /\ runs[r].at = "loop"
    /\ runs[r].i < Len(runs[r].platforms)
    /\ LET went == UntilSuspended(media_agent, runs[r].platforms, runs[r].i, runs[r].used)
       IN runs' = [runs EXCEPT ![r].i = went.i, ![r].used = went.used]
    /\ UNCHANGED <<environ, media_agent, last_call, run_vars, poll, scored, task>>

\* the loop of a run is over: the node returns
MediaLeave(r) ==
    /\ runs[r].at = "loop"
    /\ runs[r].i = Len(runs[r].platforms)
    /\ runs' = [runs EXCEPT ![r].at = "after"]
    /\ UNCHANGED <<environ, media_agent, last_call, run_vars, poll, scored, task>>

NextShared ==
    \/ \E r \in RunIds : MediaEnter(r)
    \/ \E r \in RunIds : MediaResume(r)
    \/ \E r \in RunIds : MediaLeave(r)

SpecShared == InitShared /\ [][NextShared]_vars

------------------------------------------------------------------------------
(* The nightly task: run_nightly_content_generation, its pass over one user *)

\* the greatest monthly quota of a user
MaxQuota == 2

\* the greatest number of webapps of a user
MaxWebapps == 2

\* the default platforms of the task, used when no integration is connected
DefaultPlatforms == <<"youtube", "tiktok", "instagram", "twitter", "linkedin", "facebook">>

\* platforms[:3] for the free plan
FreePlatformLimit == 3

\* the platforms of the user's connected integrations: none, one, and more
\* than the free plan is given
ConnectedPlatformLists == {SubSeq(DefaultPlatforms, 1, n) : n \in {0, 1, 4}}

\* the platforms the task passes to workflow.run
PlatformsPassed(connected, plan) ==
    LET platforms == IF connected = <<>> THEN DefaultPlatforms ELSE connected
    IN IF plan = "free"
       THEN SubSeq(platforms, 1, Min(FreePlatformLimit, Len(platforms)))
       ELSE platforms

\* what workflow.run can return for the platforms: success with at most one
\* finalized item for each platform, or the failure it catches itself
RunOutcomes(platforms) ==
    {[success |-> TRUE, content_len |-> n] : n \in 0..Len(platforms)}
        \cup {[success |-> FALSE, content_len |-> 0]}

\* the rows of the database before the task runs: a user below, at or over
\* the monthly quota, with webapps or without
InitNightly ==
    /\ environ = BlankEnvironment
    /\ media_agent = NoAgent
    /\ last_call = NoCall
    /\ pc = "idle"
    /\ channels = NoState
    /\ state = NoState
    /\ frame = NoFrame
    /\ result = NoResult
    /\ executed = <<>>
    /\ work = <<>>
    /\ faults = 0
    /\ poll = NoPoll
    /\ scored = NoScore
    /\ runs = NoRuns
    /\ \E quota \in 1..MaxQuota, used \in 0..(MaxQuota + 1), plan \in PlanTypes,
          webapps \in 0..MaxWebapps, connected \in ConnectedPlatformLists :
            task = [at |-> "user",
                    plan |-> plan,
                    monthly_content_quota |-> quota,
                    monthly_content_used |-> used,
                    used_at_start |-> used,
                    webapps |-> webapps,
                    connected |-> connected,
                    w |-> 0,
                    added |-> 0,
                    committed |-> FALSE]

\* the iteration for the user begins: users without webapps and users at or
\* over the quota are skipped
NightlyUser ==
    /\ task.at = "user"
    /\ task' = [task EXCEPT !.at =
                    IF task.webapps = 0 THEN "done"
                    ELSE IF task.monthly_content_used >= task.monthly_content_quota
                    THEN "done"
                    ELSE "webapps"]
    /\ UNCHANGED <<environ, media_agent, last_call, run_vars, poll, scored, runs>>

\* the iteration for one webapp: the workflow runs for the platforms passed;
\* on success each content item is added to the session and the user's count
\* grows by their number; a failed run and an exception leave both as they were
NightlyWebapp ==
    /\ task.at = "webapps"
    /\ task.w < task.webapps
    /\ LET platforms == PlatformsPassed(task.connected, task.plan)
       IN \/ \E outcome \in RunOutcomes(platforms) :
                task' = [task EXCEPT
                            !.w = task.w + 1,
                            !.added = IF outcome.success
                                      THEN task.added + outcome.content_len
                                      ELSE task.added,
                            !.monthly_content_used =
                                      IF outcome.success
                                      THEN task.monthly_content_used + outcome.content_len
                                      ELSE task.monthly_content_used]
          \/ task' = [task EXCEPT !.w = task.w + 1]
    /\ UNCHANGED <<environ, media_agent, last_call, run_vars, poll, scored, runs>>

\* after the webapps of the user: db.commit()
NightlyCommit ==
    /\ task.at = "webapps"
    /\ task.w = task.webapps
    /\ task' = [task EXCEPT !.at = "done", !.committed = TRUE]
    /\ UNCHANGED <<environ, media_agent, last_call, run_vars, poll, scored, runs>>

NextNightly ==
    \/ NightlyUser
    \/ NightlyWebapp
    \/ NightlyCommit

SpecNightly == InitNightly /\ [][NextNightly]_vars

------------------------------------------------------------------------------
(* Properties of a workflow run, stated over Spec *)

\* the nodes of the graph in the order of its edges
StageOrder == <<"research", "creative", "media", "optimize", "ab_test", "finalize">>

StageIndex(node) == CHOOSE k \in 1..Len(StageOrder) : StageOrder[k] = node

\* the position of a WorkflowStage tag in the enum
StageRank(tag) ==
    CASE tag = RESEARCH -> 0
      [] tag = CREATIVE -> 1
      [] tag = MEDIA -> 2
      [] tag = OPTIMIZE -> 3
      [] tag = AB_TEST -> 4
      [] tag = APPROVAL_QUEUE -> 5
      [] tag = COMPLETE -> 6

\* the entries of the work log that ended in a caught exception
Failures(stages) == {i \in 1..Len(work) : ~work[i].ok /\ work[i].stage \in stages}

\* run() has returned and every exception of the run was raised and caught
\* inside the loops of the given stages
ReturnedWithFailuresOnlyIn(stages) ==
    /\ pc = "returned"
    /\ faults = Cardinality(Failures(stages))

\* the platforms the finalized items of the result are for
ItemPlatforms == {result.content[k].platform : k \in 1..Len(result.content)}

\* C1: when M platforms throw inside the CREATIVE stage and nothing else fails,
\* run() returns normally with exactly M error entries, one per failing
\* platform, and exactly N finalized items, one per target platform.
C1_CreativeFailuresCounted ==
    ReturnedWithFailuresOnlyIn({"creative"}) =>
        /\ result.success
        /\ Len(result.errors) = Cardinality(Failures({"creative"}))
        /\ \A i \in Failures({"creative"}) :
                Cardinality({k \in 1..Len(result.errors) :
                    result.errors[k] = StageError("Creative", work[i].platform)}) = 1
        /\ Len(result.content) = Len(channels.platforms)
        /\ ItemPlatforms = Range(channels.platforms)

\* C2: a platform whose MEDIA, OPTIMIZE or AB_TEST work failed still has a
\* finalized item in the result of a run in which nothing else failed, and the
\* number of items equals the number of target platforms.
C2_LateFailureKeepsItem ==
    ReturnedWithFailuresOnlyIn({"media", "optimize", "ab_test"}) =>
        /\ \A i \in Failures({"media", "optimize", "ab_test"}) :
                work[i].platform \in ItemPlatforms
        /\ Len(result.content) = Len(channels.platforms)

\* whether an item carries a "degraded" flag
Degraded(item) == "degraded" \in DOMAIN item /\ item.degraded = TRUE

\* C3: every finalized item has a non-empty title, caption and media-URL list,
\* or is flagged degraded and is not an ordinary pending item.
C3_MandatoryFieldsOrDegraded ==
    \A k \in 1..Len(channels.final_content) :
        LET item == channels.final_content[k]
        IN \/ /\ item.title # <<>>
              /\ item.caption # <<>>
              /\ item.media_urls # <<>>
           \/ /\ Degraded(item)
              /\ item.status # "pending"

\* C4: the nodes run once each in the order of StageOrder, none skipped or
\* repeated; the current-stage tag never moves backwards; a run that returns
\* success has run every node and reports the stage COMPLETE.
C4_StagesForwardOnce ==
    /\ [](/\ Len(executed) <= Len(StageOrder)
          /\ executed = SubSeq(StageOrder, 1, Len(executed))
          /\ (pc \in Nodes => pc = StageOrder[Len(executed) + 1])
          /\ ((pc = "returned" /\ result.success) =>
                /\ executed = StageOrder
                /\ result.stages_completed = COMPLETE))
    /\ [][StageRank(channels'.current_stage) >= StageRank(channels.current_stage)]_vars

\* a run with a failed platform has returned success after all six nodes
C4_Witness ==
    /\ pc = "returned"
    /\ result.success
    /\ executed = StageOrder
    /\ faults > 0

\* the platforms a node's loop works on
WorkedOn(node) ==
    CASE node = "research" -> {None}
      [] node \in {"media", "optimize"} -> DOMAIN channels.content_packages
      [] OTHER -> Range(channels.platforms)

\* C5: whenever a stage works on some platform, no work of a later stage has
\* been done yet, and the stage before it has finished (with or without an
\* exception) for every platform it works on. The piece of work looked at is
\* the latest of the log; every piece of work is the latest when it is done.
C5_StageBarrier ==
    work # <<>> =>
        LET j == Len(work)
            stage == StageIndex(work[j].stage)
        IN /\ \A i \in 1..(j - 1) : StageIndex(work[i].stage) <= stage
           /\ stage > 1 =>
                \A q \in WorkedOn(StageOrder[stage - 1]) :
                    \E i \in 1..(j - 1) :
                        work[i].stage = StageOrder[stage - 1] /\ work[i].platform = q

\* a run over two platforms, one of which failed in the creative stage, has
\* reached the finalize stage
C5_Witness ==
    /\ Len(channels.platforms) >= 2
    /\ Failures({"creative"}) # {}
    /\ \E j \in 1..Len(work) : work[j].stage = "finalize"

------------------------------------------------------------------------------
(* Properties of the media router, stated over SpecMedia *)

IsGenerate == last_call.op = "generate"

\* how the provider-specific call of a candidate of the last request ends
Outcome(name) ==
    CallProvider(media_agent, last_call.media_type, name, last_call.text_len, last_call.resp)

\* the last request had no candidate, or none of its candidates gave an asset
Exhausted ==
    /\ IsGenerate
    /\ \A name \in Range(last_call.result.providers) : Outcome(name).kind # "asset"

Declared(name) == CHOOSE c \in Range(Registry(last_call.media_type)) : c.name = name

\* the cost the registry declares for one asset of the last request
DeclaredCost(name) ==
    IF last_call.media_type = "audio"
    THEN last_call.text_len * Declared(name).cost
    ELSE Declared(name).cost

\* C7: the providers invoked are an initial part of the candidate list, in its
\* order and each once; every one before the last failed; if some candidate can
\* succeed the last one invoked is the first that does, and the asset is
\* completed with its name and cost; otherwise every candidate was invoked.
C7_InOrderUntilFirstSuccess ==
    IsGenerate =>
        LET r == last_call.result
            n == Len(r.invoked)
        IN /\ n <= Len(r.providers)
           /\ r.invoked = SubSeq(r.providers, 1, n)
           /\ \A i, j \in 1..n : i # j => r.invoked[i] # r.invoked[j]
           /\ \A i \in 1..(n - 1) : Outcome(r.invoked[i]).kind # "asset"
           /\ IF \E name \in Range(r.providers) : Outcome(name).kind = "asset"
              THEN /\ n >= 1
                   /\ Outcome(r.invoked[n]).kind = "asset"
                   /\ r.asset.status = "completed"
                   /\ r.asset.provider = r.invoked[n]
                   /\ r.asset.cost = DeclaredCost(r.invoked[n])
              ELSE n = Len(r.providers)

\* a request served by its third candidate after two failures
C7_Witness ==
    /\ IsGenerate
    /\ Len(last_call.result.invoked) = 3
    /\ Len(last_call.result.providers) > 3
    /\ last_call.result.asset.provider = last_call.result.invoked[3]

\* whether a credential is present: a non-empty value in the caller's map or,
\* failing that, in the environment
Present(key_name) ==
    \/ Truthy(Get(media_agent.user_api_keys, key_name, None))
    \/ Truthy(getenv(key_name))

TierRank(priority) ==
    CASE priority = FREE -> 1
      [] priority = CHEAP -> 2
      [] priority = PREMIUM -> 3

\* the providers of the last call's media type whose credential is present
WithCredential ==
    {c \in Range(Registry(last_call.media_type)) : Present(c.key_name)}

\* C8: the candidate list holds, each once, exactly the providers of the media
\* type whose credential is present (those of the tier asked for, when one is),
\* ordered by tier free, cheap, premium and, within a tier, by ascending cost.
C8_CandidatesByTierThenCost ==
    last_call.op = "_get_available_providers" =>
        LET l == last_call.result.providers
        IN /\ Range(l) = {c.name : c \in {d \in WithCredential :
                                last_call.priority = None \/ d.priority = last_call.priority}}
           /\ Len(l) = Cardinality(Range(l))
           /\ \A i, j \in 1..Len(l) : i < j =>
                \/ TierRank(Declared(l[i]).priority) < TierRank(Declared(l[j]).priority)
                \/ /\ Declared(l[i]).priority = Declared(l[j]).priority
                   /\ Declared(l[i]).cost <= Declared(l[j]).cost

\* the candidate list of all tiers for images when some, not all, of the image
\* providers of every tier have a credential
C8_Witness ==
    /\ last_call.op = "_get_available_providers"
    /\ last_call.media_type = "image"
    /\ last_call.priority = None
    /\ Len(last_call.result.providers) >= 4
    /\ {Declared(n).priority : n \in Range(last_call.result.providers)} = {FREE, CHEAP, PREMIUM}

\* C9: on the free plan, when no free-tier provider of the media type has a
\* credential and some cheap or premium one has, the request invokes a provider.
C9_FreePlanFallsBackToAllTiers ==
    ( /\ IsGenerate
      /\ media_agent.user_plan = "free"
      /\ WithCredential # {}
      /\ \A c \in WithCredential : c.priority # FREE )
    => /\ last_call.result.invoked # <<>>
       /\ Range(last_call.result.providers) = {c.name : c \in WithCredential}

\* C10: on the free plan, when a free-tier provider of the media type has a
\* credential, every provider invoked is free-tier with a declared cost of zero
\* and the asset names no cheap or premium provider.
C10_FreePlanOnlyFreeTier ==
    ( /\ IsGenerate
      /\ media_agent.user_plan = "free"
      /\ \E c \in WithCredential : c.priority = FREE )
    => /\ \A n \in Range(last_call.result.invoked) :
            Declared(n).priority = FREE /\ Declared(n).cost = 0
       /\ \A c \in Range(Registry(last_call.media_type)) :
            c.priority # FREE => last_call.result.asset.provider # c.name

\* the candidate list the generate call of a media type starts from
GenerateCandidates(media_type) ==
    _get_available_providers(media_agent, media_type,
        IF media_type = "image" THEN ImagePriority(media_agent, TRUE) ELSE None)

\* the cost the registry declares for what a package asks of a provider
PackageCost(media_type, name, content_package) ==
    LET c == CHOOSE d \in Range(Registry(media_type)) : d.name = name
    IN IF media_type = "audio"
       THEN content_package.content["video_script"].text_len * c.cost
       ELSE c.cost

\* C11: for every plan, credential set and content package, the estimate of
\* each media type the package asks for is the cost of the first candidate
\* its generate call would try, and 0 when that call has no candidate.
C11_EstimateFollowsGeneration ==
    last_call.op = "estimate_cost" =>
        LET content_package == last_call.result.content_package
            estimate == last_call.result.estimate
        IN \A t \in MediaTypes :
            estimate[t] =
                IF t \in MediaTasks(content_package) /\ GenerateCandidates(t) # <<>>
                THEN PackageCost(t, GenerateCandidates(t)[1], content_package)
                ELSE 0

\* the latest iteration of the media node's loop, while the node is running
MediaStepDone == pc = "media" /\ work # <<>> /\ work[Len(work)].stage = "media"

\* the assets the latest media iteration stored for its platform
StoredAssets == Get(frame.dict, work[Len(work)].platform, EmptyDict)

\* a provider failed in the generation of an asset: a provider of the media
\* type had a credential and was a candidate, and the asset is the placeholder
ProviderFailedFor(media_type, asset) ==
    /\ asset.provider \in {"placeholder", "none"}
    /\ Reachable(media_agent, media_type)
            \cap Range(CandidatesOf(media_agent, media_type)) # {}

\* C13: a provider failure inside a generate call is not seen by the media
\* node. Whatever the providers answer, the generation for a package returns
\* an asset that is not a failed one for each capability the package asks
\* for; the iteration that stored such assets is a successful one; and the
\* error list grows in the media node only by the iterations that failed.
C13_ProviderFailureNotSurfaced ==
    /\ (pc = "media" /\ ~LoopDone(frame.i, Items(state.platforms, state.content_packages))) =>
            LET package == state.content_packages[
                               Items(state.platforms, state.content_packages)[frame.i + 1]]
            IN \A resp \in MediaResponses(media_agent, package) :
                LET assets == generate_content_media(media_agent, package, resp)
                IN /\ DOMAIN assets = MediaTasks(package)
                   /\ \A t \in DOMAIN assets :
                        assets[t].type = t /\ assets[t].status = "completed"
    /\ MediaStepDone =>
            /\ Len(state.errors) = Len(channels.errors)
                    + Cardinality(Failures({"media"}))
            /\ work[Len(work)].ok =>
                    \A t \in DOMAIN StoredAssets : StoredAssets[t].status = "completed"
            /\ (\E t \in DOMAIN StoredAssets : ProviderFailedFor(t, StoredAssets[t])) =>
                    work[Len(work)].ok

\* a provider with a credential failed and the run still ended without error
C13_Witness ==
    /\ pc = "returned"
    /\ result.success = TRUE
    /\ result.errors = <<>>
    /\ \E p \in DOMAIN channels.media_assets :
            /\ DOMAIN channels.media_assets[p] = MediaTasks(channels.content_packages[p])
            /\ \E t \in DOMAIN channels.media_assets[p] :
                    ProviderFailedFor(t, channels.media_assets[p][t])

\* run() has returned its failure result: an exception had left a node
RunFailed == pc = "returned" /\ result.success = FALSE

\* C14: a failure result of run() carries in its error list the message of
\* the exception that left the node and every stage error the earlier stages
\* had accumulated.
C14_FailureKeepsStageErrors ==
    RunFailed =>
        /\ StageError("exception", None) \in Range(result.errors)
        /\ \A i \in 1..Len(channels.errors) : channels.errors[i] \in Range(result.errors)

------------------------------------------------------------------------------
(* Properties of the polling loops, stated over SpecPoll *)

\* the bound on the status checks of a job: 60 for an image job, 120 for a
\* video job
CheckBound == IF poll.provider = "runway" THEN 120 ELSE 60

\* C12: a polling loop makes at most CheckBound status checks and can always
\* go on to its end; once a check has read success or failure the loop is
\* over; the timeout is raised after CheckBound checks, and the generate call
\* it is raised in does not raise and returns the asset of another candidate
\* or the placeholder.
C12_PollingBoundedAndPrompt ==
    poll.provider # None =>
        /\ poll.attempt <= CheckBound
        /\ poll.outcome = None => ENABLED (PollCheck \/ PollTimeout)
        /\ poll.last \in {"success", "failed"} => poll.outcome # None
        /\ poll.outcome = "timeout" => poll.attempt = CheckBound
        /\ (poll.outcome = "timeout" /\ last_call.op = "generate") =>
                /\ ~last_call.result.raised
                /\ last_call.result.asset.status = "completed"
                /\ last_call.result.asset.provider # poll.provider
                /\ poll.provider \in Range(last_call.result.invoked)

------------------------------------------------------------------------------
(* Properties of the scoring engine, stated over SpecScore *)

\* the latest evaluation of the scoring function
Scored == scored.op = "score"
Latest == scored.evaluations[Len(scored.evaluations)].result

\* the six sub-scores in the order of the feedback rules
FeedbackOrder == <<"hook", "emotional", "shareability", "timing", "uniqueness", "trend">>

SubScore(r, k) ==
    CASE k = "hook" -> r.hook_strength
      [] k = "emotional" -> r.emotional_impact
      [] k = "shareability" -> r.shareability
      [] k = "timing" -> r.timing_score
      [] k = "uniqueness" -> r.uniqueness
      [] k = "trend" -> r.trend_alignment

\* the weighted sum of the sub-scores, in hundredths
WeightedSum(r) ==
    25 * r.hook_strength + 20 * r.emotional_impact + 20 * r.shareability
    + 10 * r.timing_score + 15 * r.uniqueness + 10 * r.trend_alignment

\* the viral scores of the variants the workflow builds, for a platform of its
\* pool, from a draft that was given the overall score
VariantScores(overall) ==
    UNION { LET package == generate_content_package(FallbackResearch, platform, 1)
                variants == _generate_ab_variants(platform, package,
                                optimize_content(package, platform, overall))
            IN {variants[i].viral_score : i \in 1..Len(variants)} :
            platform \in PlatformPool }

\* C15: the six sub-scores and the overall score of every evaluation lie in
\* 0..100, the overall score is the weighted sum 0.25/0.20/0.20/0.10/0.15/0.10
\* of the sub-scores truncated to an integer, and the viral score of every
\* variant an item can be built from lies in 0..100.
C15_ScoresInRange ==
    Scored =>
        /\ \A i \in 1..Len(FeedbackOrder) : SubScore(Latest, FeedbackOrder[i]) \in 0..100
        /\ Latest.overall \in 0..100
        /\ 100 * Latest.overall <= WeightedSum(Latest)
        /\ WeightedSum(Latest) < 100 * (Latest.overall + 1)
        /\ VariantScores(Latest.overall) \subseteq 0..100

\* a hook with every pattern, whose score is cut to 100, and an overall
\* score whose variant "B" is scored above it
C15_Witness ==
    /\ Scored
    /\ Latest.hook_strength = 100
    /\ Latest.emotional_impact = 100
    /\ Latest.overall >= 90
    /\ Latest.overall + 5 \in VariantScores(Latest.overall)

Factor(k) ==
    CASE k = "hook" -> "strong_hook"
      [] k = "emotional" -> "emotional_resonance"
      [] k = "shareability" -> "high_shareability"
      [] k = "timing" -> "optimal_posting_time"
      [] k = "uniqueness" -> "unique_angle"
      [] k = "trend" -> "trend_aligned"

Recommendation(k) ==
    CASE k = "hook" -> "improve_hook"
      [] k = "emotional" -> "add_emotion"
      [] k = "shareability" -> "add_cta"
      [] k = "timing" -> "post_at_peak"
      [] k = "uniqueness" -> "change_format"
      [] k = "trend" -> "add_trends"

\* the feedback lists are those of one threshold rule per sub-score, in the
\* fixed order, with the given threshold for timing and 70 for the others
FeedbackFollows(r, timing_threshold) ==
    LET Threshold(k) == IF k = "timing" THEN timing_threshold ELSE 70
        Reached(k) == SubScore(r, k) >= Threshold(k)
        Missed(k) == SubScore(r, k) < Threshold(k)
    IN /\ r.positive_factors = SeqMap(Factor, SelectSeq(FeedbackOrder, Reached))
       /\ r.recommendations = SeqMap(Recommendation, SelectSeq(FeedbackOrder, Missed))
       /\ Len(r.positive_factors) + Len(r.recommendations) = Len(FeedbackOrder)

\* C17: for each of the six sub-scores, in the order hook, emotional,
\* shareability, timing, uniqueness, trend, a value >= 70 adds its positive
\* factor and a value < 70 adds its recommendation, one entry per sub-score.
C17_ThresholdSeventy == Scored => FeedbackFollows(Latest, 70)

\* C17, amended: the rule of the timing sub-score has the threshold 80, the
\* other five have 70.
C17_TimingAtEighty == Scored => FeedbackFollows(Latest, 80)

\* a timing score between the two thresholds, answered by the recommendation
C17_Witness ==
    /\ Scored
    /\ Latest.timing_score = 75
    /\ "post_at_peak" \in Range(Latest.recommendations)
    /\ "optimal_posting_time" \notin Range(Latest.positive_factors)
    /\ Latest.hook_strength >= 70
    /\ Latest.emotional_impact < 70

------------------------------------------------------------------------------
(* Properties of the variant generator, stated over SpecVariants *)

Generated == scored.op = "variants"

\* the identifiers of the variants generated
VariantIds == {scored.variants[i].variant_id : i \in 1..Len(scored.variants)}

\* what the drafts of the call hold
DraftHooks == HooksOf(scored.optimized_content)
DraftCtas == Get(CtaOf(scored.original_content), "variations", <<>>)
DraftHasScript ==
    Get(ContentOf(scored.original_content), "video_script", EmptyDict) # EmptyDict

C19_HookVariantIffHooks ==
    Generated => ("B" \in VariantIds <=> DraftHooks # <<>>)

\* C19, amended: variant "B" is in the list exactly when the base draft has a
\* video script and the optimized draft carries at least one hook variation.
C19_HookVariantNeedsScript ==
    Generated => ("B" \in VariantIds <=> (DraftHasScript /\ DraftHooks # <<>>))

\* alternate hooks were produced for a draft without a video script
C19_Witness ==
    /\ Generated
    /\ DraftHooks # <<>>
    /\ ~DraftHasScript
    /\ "caption" \in DOMAIN ContentOf(scored.original_content)
    /\ "B" \notin VariantIds

Chosen == Generated /\ scored.best # <<>>
Winner == scored.best[1]
WinnerAt == CHOOSE i \in 1..Len(scored.variants) : scored.variants[i] = Winner

\* C21: the winner chosen from a non-empty variant list has a viral score
\* that no variant of the list exceeds, and every variant declared before it
\* has a smaller score: among the best the first declared is chosen.
C21_WinnerIsFirstBest ==
    Chosen =>
        /\ Winner \in Range(scored.variants)
        /\ \A i \in 1..Len(scored.variants) :
                scored.variants[i].viral_score <= Winner.viral_score
        /\ \A i \in 1..(WinnerAt - 1) :
                scored.variants[i].viral_score < Winner.viral_score

\* three variants of the same score, of which the control is chosen
C21_Witness ==
    /\ Chosen
    /\ Len(scored.variants) = 3
    /\ \A i \in 1..3 : scored.variants[i].viral_score = 100
    /\ Winner.variant_id = "A"

\* the variant of the list with an identifier
VariantOf(id) == CHOOSE v \in Range(scored.variants) : v.variant_id = id

\* C22: variant "B" has the control's score plus 5, at most 100, variant "C"
\* has the control's score, every variant's score lies in 0..100 and none is
\* below the control's.
C22_VariantScoresFromControl ==
    Generated =>
        /\ "B" \in VariantIds =>
                VariantOf("B").viral_score = Min(100, VariantOf("A").viral_score + 5)
        /\ "C" \in VariantIds => VariantOf("C").viral_score = VariantOf("A").viral_score
        /\ \A i \in 1..Len(scored.variants) :
                /\ scored.variants[i].viral_score \in 0..100
                /\ scored.variants[i].viral_score >= VariantOf("A").viral_score

\* a control scored 98, whose variant "B" is cut at 100, next to a variant "C"
C22_Witness ==
    /\ Generated
    /\ VariantIds = {"A", "B", "C"}
    /\ VariantOf("A").viral_score = 98
    /\ VariantOf("B").viral_score = 100
    /\ VariantOf("C").viral_score = 98

------------------------------------------------------------------------------
(* Further properties of a workflow run, stated over Spec *)

\* a run that was given no credential at all, in which nothing failed, has
\* returned
ReturnedWithoutCredentials ==
    /\ pc = "returned"
    /\ faults = 0
    /\ environ = BlankEnvironment
    /\ channels.user_api_keys = EmptyDict

\* the media assets of the run, as <<platform, asset type>> pairs
RunAssets ==
    {<<p, t>> : p \in DOMAIN channels.media_assets, t \in MediaTypes} \cap
    UNION {{<<p, t>> : t \in DOMAIN channels.media_assets[p]} :
                p \in DOMAIN channels.media_assets}

AssetAt(pt) == channels.media_assets[pt[1]][pt[2]]

StageTag(node) ==
    CASE node = "research" -> "Research"
      [] node = "creative" -> "Creative"
      [] node = "media" -> "Media"
      [] node = "optimize" -> "Optimization"
      [] node = "ab_test" -> "A/B test"
      [] node = "finalize" -> "Finalize"

RECURSIVE ErrorsOf(_)
\* the stage errors of the failed iterations of a work history, in its order
ErrorsOf(history) ==
    IF history = <<>> THEN <<>>
    ELSE LET e == Head(history)
         IN (IF e.ok THEN <<>> ELSE <<StageError(StageTag(e.stage), e.platform)>>)
            \o ErrorsOf(Tail(history))

\* C24: the error list of a run that returns normally holds every stage
\* error that was recorded, once each and in the order of recording.
C24_ErrorsAppendOnly ==
    (pc = "returned" /\ result.success = TRUE) => result.errors = ErrorsOf(work)

\* no iteration of any stage failed for the platform
Unfailed(q) == \A i \in 1..Len(work) : work[i].platform = q => work[i].ok

\* the finalized items of the result that are for a platform
ItemsFor(q) == {k \in 1..Len(result.content) : result.content[k].platform = q}

\* the item a platform gets in a run in which no platform fails, given the
\* research snapshot, the assets generated for the platform and the overall
\* score its draft was given
UndisturbedItem(q) ==
    LET package == generate_content_package(channels.research_results, q,
                                            channels.webapp_data.text_len)
        optimized == optimize_content(package, q, channels.viral_scores[q].overall)
    IN ContentItem(q, BestVariant(_generate_ab_variants(q, package, optimized)), channels)

ResearchFailed ==
    /\ work # <<>>
    /\ work[1].stage = "research"
    /\ ~work[1].ok

\* the stages after research
LaterStages == {"creative", "media", "optimize", "ab_test", "finalize"}

\* the stage completed an iteration for the platform
StageRanFor(stage, q) ==
    \E i \in 1..Len(work) :
        work[i].stage = stage /\ work[i].platform = q /\ work[i].ok

RECURSIVE IncurredCost(_, _)
\* the costs carried by the assets generated for one platform
IncurredCost(assets, types) ==
    IF types = {} THEN 0
    ELSE LET t == CHOOSE x \in types : TRUE
         IN assets[t].cost + IncurredCost(assets, types \ {t})

RECURSIVE AccountedCost(_, _)
\* over the first n platforms that have a content package: the pre-flight
\* estimate of each package plus the costs of the assets generated for it
AccountedCost(items, n) ==
    IF n = 0 THEN 0
    ELSE LET q == items[n]
             assets == Get(channels.media_assets, q, EmptyDict)
         IN AccountedCost(items, n - 1)
                + estimate_cost(media_agent, channels.content_packages[q]).total
                + IncurredCost(assets, DOMAIN assets)

\* C28: once the media stage has returned, the cost estimate of the run is
\* the sum, over the platforms that have a content package, of the package's
\* pre-flight estimate total and of the cost of each asset generated for the
\* platform.
C28_CostAccountsForGenerated ==
    (executed # <<>> /\ executed[Len(executed)] = "media") =>
        LET items == Items(channels.platforms, channels.content_packages)
        IN channels.cost_estimate = AccountedCost(items, Len(items))

\* the variant ids of a variant list
IdsOf(variants) == {variants[i].variant_id : i \in 1..Len(variants)}

\* the greatest score for which raising it by 5 stays under the cap of 100
HighestUncappedControl == 95

\* C29: in a run that returns normally, every finalized item is built from
\* variant "B" when the variant list of its platform has a "B" and from the
\* control "A" otherwise, and never from "C"; the control is the first of
\* the list and its score is at most 95, so the score of "B" is the
\* control's plus 5 and under the cap of 100.
C29_WinnerIsBOrControl ==
    (pc = "returned" /\ result.success = TRUE) =>
        \A k \in 1..Len(result.content) :
            LET q == result.content[k].platform
                variants == Get(channels.ab_test_variants, q, <<>>)
            IN /\ variants # <<>>
               /\ variants[1].variant_id = "A"
               /\ variants[1].viral_score <= HighestUncappedControl
               /\ \A i \in 1..Len(variants) :
                    variants[i].variant_id = "B" =>
                        /\ variants[i].viral_score = variants[1].viral_score + 5
                        /\ variants[i].viral_score < 100
               /\ result.content[k].variant_id =
                    (IF "B" \in IdsOf(variants) THEN "B" ELSE "A")
               /\ result.content[k].variant_id # "C"
               /\ result.content[k].viral_score =
                    (IF "B" \in IdsOf(variants)
                     THEN variants[1].viral_score + 5 ELSE variants[1].viral_score)

\* a run returned one item built from a "B" of the greatest score and one
\* built from the control of a list that has a "C" and no "B"
C29_Witness ==
    /\ pc = "returned"
    /\ result.success = TRUE
    /\ \E k \in 1..Len(result.content) :
            /\ result.content[k].variant_id = "B"
            /\ result.content[k].viral_score = 98
    /\ \E k \in 1..Len(result.content) :
            /\ result.content[k].variant_id = "A"
            /\ IdsOf(channels.ab_test_variants[result.content[k].platform]) = {"A", "C"}

------------------------------------------------------------------------------
(* Properties of concurrent runs, stated over SpecShared *)

\* C26: every cost estimation and media generation made for a run uses that
\* run's own credentials and plan, however the two runs interleave at their
\* suspension points.
C26_RunOwnsItsContext ==
    runs # NoRuns =>
        \A r \in RunIds : \A k \in 1..Len(runs[r].used) :
            /\ runs[r].used[k].user_api_keys = runs[r].context.user_api_keys
            /\ runs[r].used[k].user_plan = runs[r].context.user_plan

------------------------------------------------------------------------------
(* Properties of the nightly task, stated over SpecNightly *)

\* C30: when the task is done with a user who started with a count no
\* greater than the quota, the count is still no greater than the quota; and
\* a user who started at or over the quota has had no content item added.
C30_QuotaRespected ==
    task.at = "done" =>
        /\ task.used_at_start <= task.monthly_content_quota =>
                task.monthly_content_used <= task.monthly_content_quota
        /\ task.used_at_start >= task.monthly_content_quota => task.added = 0

====
